---- MODULE Spec2Model ----
(***************************************************************************)
(* CityGuardian: registration, credential sign-in, media upload, the        *)
(* complaint form and the complaints collection.                           *)
(* Strings that the code converts (toLowerCase, trim, regex test, length)  *)
(* are sequences of one-character strings; enumerations (roles, MIME       *)
(* types, messages) are TLA+ strings.                                      *)
(***************************************************************************)
EXTENDS Integers, Sequences, FiniteSets, TLC

VARIABLES
  users,      \* the users collection
  nextId,     \* source of fresh _id values
  attempted,  \* history: lower-cased emails of completed valid register calls
  authImpl,   \* which of the three authOptions modules is mounted
  token,      \* the signed session token held by the client (cookie)
  signedIn,   \* history: the user record verified at the last sign-in
  resp,       \* the response the last step produced, if it served a request
  up,         \* the upload request being served and its response
  cloud,      \* artifacts stored by the remote storage service
  complaints, \* the complaints collection
  form,       \* the state of the IssueForm component
  req,        \* the request of the form to /api/complaints that is in flight
  script,     \* the run of the setup test script: its position and locals
  reg,        \* the register requests in flight between their check and their save
  iu,         \* the state of the ImageUpload component
  feed,       \* the state of a mounted useLiveFeed hook
  rt          \* the state of a mounted useRealtimeData hook

vars ==
  <<users, nextId, attempted, authImpl, token, signedIn, resp, up, cloud,
    complaints, form, req, script, reg, iu, feed, rt>>

authVars == <<authImpl, token, signedIn>>
uploadVars == <<up, cloud>>
formVars == <<form, req>>
procVars == <<script, reg>>
feedVars == <<feed, rt>>
uiVars == <<iu, feed, rt>>

(***************************************************************************)
(* Bounds                                                                   *)
(***************************************************************************)
MaxUsers == 5

(***************************************************************************)
(* String literals used by the code and by the inputs                       *)
(***************************************************************************)
EmptyStr == <<>>
S_citizen1Email == <<"c", "i", "t", "i", "z", "e", "n", "1", "@", "c", "i", "t", "y", "g", "u", "a", "r", "d", "i", "a", "n", ".", "c", "o", "m">>
S_employeeEmail == <<"e", "m", "p", "l", "o", "y", "e", "e", "@", "c", "i", "t", "y", "g", "u", "a", "r", "d", "i", "a", "n", ".", "c", "o", "m">>
S_adminEmail == <<"a", "d", "m", "i", "n", "@", "c", "i", "t", "y", "g", "u", "a", "r", "d", "i", "a", "n", ".", "c", "o", "m">>
S_AdminEmailMixed == <<"A", "d", "m", "i", "n", "@", "C", "i", "t", "y", "G", "u", "a", "r", "d", "i", "a", "n", ".", "c", "o", "m">>
S_password123 == <<"p", "a", "s", "s", "w", "o", "r", "d", "1", "2", "3">>
S_name1 == <<"T", "e", "s", "t", " ", "C", "i", "t", "i", "z", "e", "n", " ", "1">>
S_name2 == <<"T", "e", "s", "t", " ", "E", "m", "p", "l", "o", "y", "e", "e">>
S_name3 == <<"A", "d", "m", "i", "n", " ", "U", "s", "e", "r">>
S_mobile1 == <<"9", "8", "7", "6", "5", "4", "3", "2", "1", "0">>
S_mobile2 == <<"9", "8", "7", "6", "5", "4", "3", "2", "1", "1">>
S_mobile3 == <<"9", "8", "7", "6", "5", "4", "3", "2", "1", "2">>
S_aliceEmail == <<"a", "@", "x", ".", "c", "o", "m">>
S_AliceEmailUpper == <<"A", "@", "X", ".", "c", "o", "m">>
S_emailNoDot == <<"a", "@", "x">>
S_emailSpace == <<"a", "@", "x", ".", "c", "o", "m", " ">>
S_secret1 == <<"s", "e", "c", "r", "e", "t", "1">>
S_abcde == <<"a", "b", "c", "d", "e">>
S_abcdef == <<"a", "b", "c", "d", "e", "f">>
S_Alice == <<"A", "l", "i", "c", "e">>
S_phone == <<"5", "5", "5", "-", "1", "0", "0", "0">>
S_address == <<"1", " ", "M", "a", "i", "n", " ", "S", "t">>
S_city == <<"S", "p", "r", "i", "n", "g", "f", "i", "e", "l", "d">>
S_testExampleEmail == <<"t", "e", "s", "t", "@", "e", "x", "a", "m", "p", "l", "e", ".", "c", "o", "m">>
S_imagetestPrefix == <<"i", "m", "a", "g", "e", "t", "e", "s", "t", "-">>
S_exampleDomain == <<"@", "e", "x", "a", "m", "p", "l", "e", ".", "c", "o", "m">>
S_testPrefix == <<"t", "e", "s", "t", "-">>
S_cityguardianDomain == <<"@", "c", "i", "t", "y", "g", "u", "a", "r", "d", "i", "a", "n", ".", "c", "o", "m">>
S_testpassword123 == <<"t", "e", "s", "t", "p", "a", "s", "s", "w", "o", "r", "d", "1", "2", "3">>
S_SecurePass == <<"S", "e", "c", "u", "r", "e", "P", "a", "s", "s", "1", "2", "3", "!">>
S_TestUser == <<"T", "e", "s", "t", " ", "U", "s", "e", "r">>

(***************************************************************************)
(* JavaScript string operations                                             *)
(***************************************************************************)
UpperToLower ==
  [A |-> "a", B |-> "b", C |-> "c", D |-> "d", E |-> "e", F |-> "f",
   G |-> "g", H |-> "h", I |-> "i", J |-> "j", K |-> "k", L |-> "l",
   M |-> "m", N |-> "n", O |-> "o", P |-> "p", Q |-> "q", R |-> "r",
   S |-> "s", T |-> "t", U |-> "u", V |-> "v", W |-> "w", X |-> "x",
   Y |-> "y", Z |-> "z"]

\* String.prototype.toLowerCase
toLowerCase(s) ==
  [i \in 1..Len(s) |-> IF s[i] \in DOMAIN UpperToLower THEN UpperToLower[s[i]] ELSE s[i]]

\* the regex class \s
IsSpace(c) == c \in {" ", "\t", "\n", "\r"}

RECURSIVE trimStart(_)
trimStart(s) ==
  IF s # <<>> /\ IsSpace(Head(s)) THEN trimStart(Tail(s)) ELSE s

RECURSIVE trimEnd(_)
trimEnd(s) ==
  IF s # <<>> /\ IsSpace(s[Len(s)]) THEN trimEnd(SubSeq(s, 1, Len(s) - 1)) ELSE s

\* String.prototype.trim
trim(s) == trimEnd(trimStart(s))

\* /^[^\s@]+@[^\s@]+\.[^\s@]+$/.test(s)
emailRegexTest(s) ==
  LET ats == {i \in 1..Len(s) : s[i] = "@"}
  IN /\ \A i \in 1..Len(s) : ~IsSpace(s[i])
     /\ Cardinality(ats) = 1
     /\ LET a == CHOOSE i \in ats : TRUE
        IN /\ a > 1
           /\ \E d \in (a + 2)..(Len(s) - 1) : s[d] = "."

(***************************************************************************)
(* bcryptjs.  A value that can be hashed is [s, rounds]: the plain text s   *)
(* and the cost factors of the hashes applied to it so far (innermost       *)
(* first); a plain string has rounds = <<>>.  Salts are random and carried  *)
(* inside the hash, so compare does not depend on them.                     *)
(***************************************************************************)
Plain(s) == [s |-> s, rounds |-> <<>>]

bcryptHash(data, saltRounds) ==
  [s |-> data.s, rounds |-> Append(data.rounds, saltRounds)]

bcryptCompare(data, hash) ==
  /\ Len(hash.rounds) >= 1
  /\ hash.s = data.s
  /\ SubSeq(hash.rounds, 1, Len(hash.rounds) - 1) = data.rounds

(***************************************************************************)
(* models/User.ts                                                           *)
(***************************************************************************)
RoleEnum == {"citizen", "employee", "admin"}

NoUser ==
  [id |-> 0, name |-> EmptyStr, email |-> EmptyStr, password |-> Plain(EmptyStr),
   mobile |-> EmptyStr, role |-> ""]

Get(obj, f, default) == IF f \in DOMAIN obj THEN obj[f] ELSE default

\* new User(obj): strict schema (paths outside the schema are dropped),
\* the lowercase setter on email, the default of role.
NewUser(id, obj) ==
  [id |-> id,
   name |-> Get(obj, "name", EmptyStr),
   email |-> toLowerCase(Get(obj, "email", EmptyStr)),
   password |-> Get(obj, "password", Plain(EmptyStr)),
   mobile |-> Get(obj, "mobile", EmptyStr),
   role |-> Get(obj, "role", "citizen")]

\* the paths marked required: true, and the enum of role
RequiredPaths == {"name", "email", "password", "mobile"}

PathEmpty(doc, p) == IF p = "password" THEN doc.password.s = EmptyStr ELSE doc[p] = EmptyStr

ValidationErrors(doc) ==
  {p \in RequiredPaths : PathEmpty(doc, p)} \cup
  (IF doc.role \in RoleEnum THEN {} ELSE {"role"})

\* userSchema.pre('save'): a new document's password counts as modified
PreSaveRounds == 10

preSave(doc) ==
  [doc EXCEPT !.password = bcryptHash(doc.password, PreSaveRounds)]

\* Model.findOne({email}): the filter is cast with the schema's setters
findOneByEmail(coll, email) ==
  LET hits == {u \in coll : u.email = toLowerCase(email)}
  IN IF hits = {} THEN NoUser ELSE CHOOSE u \in hits : TRUE

\* the unique index on email
UniqueViolation(coll, doc) == \E u \in coll : u.email = doc.email

MsgValidation == "User validation failed"
MsgDuplicateKey == "E11000 duplicate key error collection: users index: email_1"
MsgNone == ""

\* document.save(): validation, then the pre-save hook, then the insert
save(coll, doc) ==
  IF ValidationErrors(doc) # {}
  THEN [ok |-> FALSE, message |-> MsgValidation, doc |-> doc, coll |-> coll]
  ELSE LET hashed == preSave(doc)
       IN IF UniqueViolation(coll, hashed)
          THEN [ok |-> FALSE, message |-> MsgDuplicateKey, doc |-> hashed, coll |-> coll]
          ELSE [ok |-> TRUE, message |-> MsgNone, doc |-> hashed,
                coll |-> coll \cup {hashed}]

\* user.comparePassword(candidate)
comparePassword(user, candidate) == bcryptCompare(Plain(candidate), user.password)

(***************************************************************************)
(* app/api/auth/register/route.ts                                           *)
(***************************************************************************)
MinPasswordLength == 6
RegisterSaltRounds == 12
validRoles == {"citizen", "employee", "admin"}

\* error.message.includes('duplicate key')
IncludesDuplicateKey(message) == message = MsgDuplicateKey

MissingRequired(body) ==
  \/ body.name = EmptyStr
  \/ body.email = EmptyStr
  \/ body.password = EmptyStr
  \/ body.phone = EmptyStr
  \/ body.address = EmptyStr
  \/ body.city = EmptyStr

PasswordTooShort_offByOne(password) == Len(password) < MinPasswordLength - 1

PasswordTooShort(password) == Len(password) < MinPasswordLength

InvalidRole_unchecked(role) == FALSE

InvalidRole(role) == role # "" /\ role \notin validRoles

RegResult(status, error, user, coll, db) ==
  [status |-> status, error |-> error, user |-> user, coll |-> coll, db |-> db]

NoBodyUser ==
  [id |-> 0, name |-> EmptyStr, email |-> EmptyStr, phone |-> EmptyStr,
   address |-> EmptyStr, city |-> EmptyStr, role |-> ""]

\* the handler from bcrypt.hash on: the document is built and saved on the
\* collection as it is then, and the catch block maps a failed save
CreateAndSave(coll, id, body) ==
  LET hashedPassword == bcryptHash(Plain(body.password), RegisterSaltRounds)
      user == NewUser(id,
                [name |-> trim(body.name),
                 email |-> trim(toLowerCase(body.email)),
                 password |-> hashedPassword,
                 phone |-> trim(body.phone),
                 address |-> trim(body.address),
                 city |-> trim(body.city),
                 role |-> IF body.role # "" THEN body.role ELSE "citizen",
                 isActive |-> TRUE])
      saved == save(coll, user)
      calls == <<"dbConnect", "findOne", "save">>
  IN IF saved.ok
     THEN RegResult(201, MsgNone,
            [id |-> saved.doc.id, name |-> saved.doc.name,
             email |-> saved.doc.email,
             phone |-> Get(saved.doc, "phone", EmptyStr),
             address |-> Get(saved.doc, "address", EmptyStr),
             city |-> Get(saved.doc, "city", EmptyStr),
             role |-> saved.doc.role],
            saved.coll, calls)
     ELSE IF IncludesDuplicateKey(saved.message)
     THEN RegResult(409, "User with this email already exists", NoBodyUser,
                    saved.coll, calls)
     ELSE RegResult(500, "Internal server error during registration",
                    NoBodyUser, saved.coll, calls)

\* the handler: result is the response, the collection afterwards and the
\* database calls made, in order
RegisterPOST(coll, id, body) ==
  IF MissingRequired(body)
  THEN RegResult(400, "All fields are required", NoBodyUser, coll, <<>>)
  ELSE IF ~emailRegexTest(body.email)
  THEN RegResult(400, "Invalid email format", NoBodyUser, coll, <<>>)
  ELSE IF PasswordTooShort(body.password)
  THEN RegResult(400, "Password must be at least 6 characters long", NoBodyUser, coll, <<>>)
  ELSE IF InvalidRole(body.role)
  THEN RegResult(400, "Invalid role specified", NoBodyUser, coll, <<>>)
  ELSE LET existingUser == findOneByEmail(coll, toLowerCase(body.email))
       IN IF existingUser.id # 0
          THEN RegResult(409, "User with this email already exists", NoBodyUser, coll,
                         <<"dbConnect", "findOne">>)
          ELSE CreateAndSave(coll, id, body)

\* request bodies
BodyNames == {EmptyStr, S_Alice}
BodyEmails == {EmptyStr, S_aliceEmail, S_AliceEmailUpper, S_AdminEmailMixed, S_emailSpace,
               S_emailNoDot}
BodyPasswords == {EmptyStr, S_abcde, S_abcdef}
BodyPhones == {EmptyStr, S_phone}
BodyAddresses == {EmptyStr, S_address}
BodyCities == {EmptyStr, S_city}
BodyRoles == {"", "admin", "superuser"}

\* name, phone, address and city: all given, exactly one empty, or all empty
OtherFieldsEmpty(b) ==
  {f \in {"name", "phone", "address", "city"} : b[f] = EmptyStr}

RegisterBodies ==
  {b \in [name : BodyNames, email : BodyEmails, password : BodyPasswords,
           phone : BodyPhones, address : BodyAddresses, city : BodyCities,
           role : BodyRoles] : Cardinality(OtherFieldsEmpty(b)) \in {0, 1, 4}}

\* a request the contract calls valid
ValidInput(body) ==
  /\ ~MissingRequired(body)
  /\ emailRegexTest(body.email)
  /\ Len(body.password) >= 6
  /\ body.role \in {""} \cup RoleEnum

Register(body) ==
  LET r == RegisterPOST(users, nextId, body)
  IN /\ Cardinality(users) < MaxUsers
     /\ users' = r.coll
     /\ nextId' = IF r.coll # users THEN nextId + 1 ELSE nextId
     /\ resp' = [op |-> "register", body |-> body, status |-> r.status,
                 error |-> r.error, user |-> r.user, db |-> r.db,
                 before |-> users,
                 priorSame |-> toLowerCase(body.email) \in attempted]
     /\ attempted' = IF ValidInput(body)
                     THEN attempted \cup {toLowerCase(body.email)}
                     ELSE attempted
     /\ UNCHANGED <<authVars, uploadVars, complaints, formVars, procVars, uiVars>>

(***************************************************************************)
(* sample-data seeding (users)                                              *)
(***************************************************************************)
sampleUsers ==
  << [name |-> S_name1, email |-> S_citizen1Email, password |-> Plain(S_password123),
      mobile |-> S_mobile1, role |-> "citizen"],
     [name |-> S_name2, email |-> S_employeeEmail, password |-> Plain(S_password123),
      mobile |-> S_mobile2, role |-> "employee"],
     [name |-> S_name3, email |-> S_adminEmail, password |-> Plain(S_password123),
      mobile |-> S_mobile3, role |-> "admin"] >>

\* one iteration of the loop over sampleUsers; st = [coll, id]
SeedOne(st, userData) ==
  IF findOneByEmail(st.coll, userData.email).id # 0
  THEN st
  ELSE LET saved == save(st.coll, NewUser(st.id, userData))
       IN IF saved.ok THEN [coll |-> saved.coll, id |-> st.id + 1] ELSE st

RECURSIVE SeedLoop(_, _)
SeedLoop(st, i) ==
  IF i > Len(sampleUsers) THEN st ELSE SeedLoop(SeedOne(st, sampleUsers[i]), i + 1)

SeedSampleUsers ==
  LET st == SeedLoop([coll |-> users, id |-> nextId], 1)
  IN /\ Cardinality(users) + Len(sampleUsers) <= MaxUsers
     /\ users' = st.coll
     /\ nextId' = st.id
     /\ resp' = [op |-> "seed", before |-> users]
     /\ UNCHANGED <<attempted, authVars, uploadVars, complaints, formVars, procVars, uiVars>>

(***************************************************************************)
(* Credential sign-in: authOptions of app/api/auth/[...nextauth]/route.ts   *)
(* ("route") and of the two other authOptions modules ("authA", "authB").   *)
(***************************************************************************)
AuthImpls == {"route", "authA", "authB"}

ErrInvalidCredentials == "Invalid credentials"
ErrNoUserFound == "No user found"
ErrInvalidPassword_generic == "No user found"

ErrInvalidPassword == "Invalid password"

\* user._id.toString()
idToString(id) == [hex |-> id]
NoId == [hex |-> 0]

NoAuthUser == [id |-> NoId, email |-> EmptyStr, name |-> EmptyStr, role |-> ""]

\* authorize(credentials): the user object returned (NoAuthUser for null),
\* the Error raised inside it, and whether that Error leaves authorize
AuthResult(impl, user, error) ==
  [user |-> user, error |-> error, thrown |-> error # MsgNone /\ impl = "route"]

authorize_returnsDocument(impl, coll, credentials) ==
  IF credentials.email = EmptyStr \/ credentials.password = EmptyStr
  THEN AuthResult(impl, NoAuthUser, ErrInvalidCredentials)
  ELSE LET user == findOneByEmail(coll, credentials.email)
       IN IF user.id = 0
          THEN AuthResult(impl, NoAuthUser, ErrNoUserFound)
          ELSE IF ~comparePassword(user, credentials.password)
          THEN AuthResult(impl, NoAuthUser, ErrInvalidPassword)
          ELSE AuthResult(impl,
                 [id |-> idToString(user.id), email |-> user.email,
                  name |-> user.name, role |-> user.role,
                  password |-> user.password],
                 MsgNone)

\* authorize(credentials); the query selects the password for the comparison
authorize(impl, coll, credentials) ==
  IF credentials.email = EmptyStr \/ credentials.password = EmptyStr
  THEN AuthResult(impl, NoAuthUser, ErrInvalidCredentials)
  ELSE LET user == findOneByEmail(coll, credentials.email)
       IN IF user.id = 0
          THEN AuthResult(impl, NoAuthUser, ErrNoUserFound)
          ELSE IF ~comparePassword(user, credentials.password)
          THEN AuthResult(impl, NoAuthUser, ErrInvalidPassword)
          ELSE AuthResult(impl,
                 [id |-> idToString(user.id), email |-> user.email,
                  name |-> user.name, role |-> user.role],
                 MsgNone)

NoToken ==
  [present |-> FALSE, sub |-> NoId, name |-> EmptyStr, email |-> EmptyStr,
   id |-> NoId, role |-> ""]

\* the token NextAuth builds from the user that authorize returned
DefaultToken(user) ==
  [present |-> TRUE, sub |-> user.id, name |-> user.name, email |-> user.email,
   id |-> NoId, role |-> ""]

jwt_noRole(impl, tok, user, hasUser) ==
  IF ~hasUser THEN tok
  ELSE IF impl = "authA"
  THEN [tok EXCEPT !.id = user.id, !.email = user.email, !.name = user.name]
  ELSE [tok EXCEPT !.id = user.id]

\* callbacks.jwt({token, user}); hasUser is false on every call after sign-in
jwt(impl, tok, user, hasUser) ==
  IF ~hasUser THEN tok
  ELSE IF impl = "authA"
  THEN [tok EXCEPT !.id = user.id, !.role = user.role,
                   !.email = user.email, !.name = user.name]
  ELSE [tok EXCEPT !.id = user.id, !.role = user.role]

NoSession ==
  [present |-> FALSE,
   user |-> [id |-> NoId, role |-> "", email |-> EmptyStr, name |-> EmptyStr]]

\* the session NextAuth builds from the decoded token
DefaultSession(tok) ==
  [present |-> TRUE,
   user |-> [id |-> NoId, role |-> "", email |-> tok.email, name |-> tok.name]]

\* callbacks.session({session, token})
session(impl, sess, tok) ==
  IF impl = "authA"
  THEN [sess EXCEPT !.user.id = tok.id, !.user.role = tok.role,
                    !.user.email = tok.email, !.user.name = tok.name]
  ELSE [sess EXCEPT !.user.id = tok.id, !.user.role = tok.role]

CredEmails == {EmptyStr, S_adminEmail, S_AdminEmailMixed, S_citizen1Email, S_aliceEmail}
CredPasswords == {EmptyStr, S_password123, S_secret1}
Credentials == [email : CredEmails, password : CredPasswords]

\* POST of the credentials to the sign-in endpoint
SignIn(credentials) ==
  LET r == authorize(authImpl, users, credentials)
      ok == r.user.id # NoId
  IN /\ token' = IF ok THEN jwt(authImpl, DefaultToken(r.user), r.user, TRUE) ELSE token
     /\ signedIn' = IF ok THEN findOneByEmail(users, credentials.email) ELSE signedIn
     /\ resp' = [op |-> "signin", credentials |-> credentials, user |-> r.user,
                 error |-> r.error, thrown |-> r.thrown, issued |-> ok]
     /\ UNCHANGED <<users, nextId, attempted, authImpl, uploadVars, complaints, formVars, procVars, uiVars>>

\* a write to the role path of a stored user by whoever administers the
\* collection; the schema admits every value of the enum
UpdateUserRole(id, role) ==
  /\ \E u \in users : u.id = id /\ u.role # role
  /\ users' = {IF u.id = id THEN [u EXCEPT !.role = role] ELSE u : u \in users}
  /\ resp' = [op |-> "updateRole", id |-> id, role |-> role]
  /\ UNCHANGED <<nextId, attempted, authVars, uploadVars, complaints, formVars, procVars, uiVars>>

GetSession_rereadsRole ==
  /\ token' = IF token.present
              THEN LET tok == jwt(authImpl, token, NoAuthUser, FALSE)
                   IN [tok EXCEPT !.role = findOneByEmail(users, tok.email).role]
              ELSE token
  /\ resp' = [op |-> "session",
              session |-> IF token.present
                          THEN session(authImpl, DefaultSession(token'), token')
                          ELSE NoSession]
  /\ UNCHANGED <<users, nextId, attempted, authImpl, signedIn, uploadVars, complaints, formVars, procVars, uiVars>>

\* a later request that reads the session from the token
GetSession ==
  /\ token' = IF token.present THEN jwt(authImpl, token, NoAuthUser, FALSE) ELSE token
  /\ resp' = [op |-> "session",
              session |-> IF token.present
                          THEN session(authImpl, DefaultSession(token'), token')
                          ELSE NoSession]
  /\ UNCHANGED <<users, nextId, attempted, authImpl, signedIn, uploadVars, complaints, formVars, procVars, uiVars>>

(***************************************************************************)
(* app/api/upload/route.ts                                                  *)
(***************************************************************************)
MaxFiles == 2

allowedTypes == {"image/jpeg", "image/jpg", "image/png", "image/webp"}
maxSize == 10 * 1024 * 1024
TwelveMB == 12 * 1024 * 1024

SeqsUpTo(S, n) == UNION {[1..k -> S] : k \in 0..n}

Files ==
  {[type |-> "image/jpeg", size |-> maxSize],
   [type |-> "image/jpg", size |-> maxSize],
   [type |-> "image/webp", size |-> maxSize + 1],
   [type |-> "image/jpeg", size |-> TwelveMB],
   [type |-> "image/gif", size |-> maxSize],
   [type |-> "image/gif", size |-> TwelveMB]}
Batches == SeqsUpTo(Files, MaxFiles)

S_b64a == <<"d", "a", "t", "a", ":", "A">>
S_b64b == <<"d", "a", "t", "a", ":", "i", "m", "a", "g", "e", "/", "g", "i", "f", ";", "b", "a", "s", "e", "6", "4", ",", "Q", "Q">>
PutBodies ==
  {[kind |-> "missing", images |-> <<>>], [kind |-> "string", images |-> <<>>]} \cup
  {[kind |-> "array", images |-> s] : s \in SeqsUpTo({S_b64a, S_b64b}, MaxFiles)}

ImageTypes == {"image/jpeg", "image/jpg", "image/png", "image/webp", "image/gif"}

TypeRejected_anyImage(file) == file.type \notin ImageTypes

TypeRejected(file) == file.type \notin allowedTypes

SizeRejected(file) == file.size > maxSize

FirstRejected_firstOnly(files) ==
  IF Len(files) >= 1 /\ (TypeRejected(files[1]) \/ SizeRejected(files[1])) THEN 1 ELSE 0

\* the validation loop: index of the file at which it returns, 0 if none
FirstRejected(files) ==
  LET bad == {i \in 1..Len(files) : TypeRejected(files[i]) \/ SizeRejected(files[i])}
  IN IF bad = {} THEN 0 ELSE CHOOSE i \in bad : \A j \in bad : i <= j

\* if (!session) in POST and in PUT
PostUnauthorized(hasSession) == ~hasSession

PutUnauthorized_unchecked(hasSession) == FALSE

PutUnauthorized(hasSession) == ~hasSession

UpResponse(method, hasSession, bodyRead, files, body, pc, status, error, results, images) ==
  [method |-> method, hasSession |-> hasSession, bodyRead |-> bodyRead,
   files |-> files, body |-> body, pc |-> pc, status |-> status, error |-> error,
   results |-> results, images |-> images]

NoPutBody == [kind |-> "missing", images |-> <<>>]

\* An artifact is [cur, idx]: the upload of the file at position idx of the
\* request being served (cur) or of an earlier request; artifacts of earlier
\* requests at the same position are not told apart.  Nothing removes one.
Artifact(cur, idx) == [cur |-> cur, idx |-> idx]

Earlier(artifacts) == {Artifact(FALSE, a.idx) : a \in artifacts}

\* the handle built from Cloudinary's result for the file at position idx
CloudHandle(idx) ==
  [url |-> Artifact(TRUE, idx), publicId |-> Artifact(TRUE, idx), format |-> "auto"]

\* the return inside the validation loop, at file k
ValidationResponse_afterDispatch(files, k) ==
  UpResponse("POST", TRUE, TRUE, files, NoPutBody, "done", 400,
             IF TypeRejected(files[k]) THEN "Invalid file type" ELSE "File too large",
             [i \in 1..(k - 1) |-> "pending"], <<>>)

ValidationResponse(files, k) ==
  UpResponse("POST", TRUE, TRUE, files, NoPutBody, "done", 400,
             IF TypeRejected(files[k]) THEN "Invalid file type" ELSE "File too large",
             <<>>, <<>>)

NoPending == \A i \in DOMAIN up.results : up.results[i] # "pending"

\* POST up to the point where the handler awaits Promise.all
UploadPOST(hasSession, files) ==
  LET k == FirstRejected(files)
  IN /\ NoPending
     /\ cloud' = Earlier(cloud)
     /\ up' =
          IF PostUnauthorized(hasSession)
          THEN UpResponse("POST", hasSession, FALSE, files, NoPutBody, "done", 401,
                          "Unauthorized", <<>>, <<>>)
          ELSE IF Len(files) = 0
          THEN UpResponse("POST", hasSession, TRUE, files, NoPutBody, "done", 400,
                          "No files uploaded", <<>>, <<>>)
          ELSE IF k # 0
          THEN ValidationResponse(files, k)
          ELSE UpResponse("POST", hasSession, TRUE, files, NoPutBody, "uploading", 0,
                          MsgNone, [i \in 1..Len(files) |-> "pending"], <<>>)
     /\ UNCHANGED <<users, nextId, attempted, authVars, resp, complaints, formVars, procVars, uiVars>>

UploadSettle_rollback(i, ok) ==
  LET results == [up.results EXCEPT ![i] = IF ok THEN "ok" ELSE "failed"]
  IN /\ up.pc # "idle"
     /\ i \in DOMAIN up.results
     /\ up.results[i] = "pending"
     /\ cloud' = IF ok THEN cloud \cup {Artifact(TRUE, i)}
                 ELSE {a \in cloud : ~a.cur}
     /\ up' =
          IF up.pc # "uploading"
          THEN [up EXCEPT !.results = results]
          ELSE IF ~ok
          THEN [up EXCEPT !.results = results, !.pc = "done", !.status = 500,
                          !.error = "Failed to upload images"]
          ELSE IF \A j \in DOMAIN results : results[j] = "ok"
          THEN [up EXCEPT !.results = results, !.pc = "done", !.status = 200,
                          !.images = [j \in DOMAIN results |-> CloudHandle(j)]]
          ELSE [up EXCEPT !.results = results]
     /\ UNCHANGED <<users, nextId, attempted, authVars, resp, complaints, formVars, procVars, uiVars>>

\* the upload_stream callback of file i, and the handler's continuation when
\* it settles Promise.all
UploadSettle(i, ok) ==
  LET results == [up.results EXCEPT ![i] = IF ok THEN "ok" ELSE "failed"]
  IN /\ up.pc # "idle"
     /\ i \in DOMAIN up.results
     /\ up.results[i] = "pending"
     /\ cloud' = IF ok THEN cloud \cup {Artifact(TRUE, i)} ELSE cloud
     /\ up' =
          IF up.pc # "uploading"
          THEN [up EXCEPT !.results = results]
          ELSE IF ~ok
          THEN [up EXCEPT !.results = results, !.pc = "done", !.status = 500,
                          !.error = "Failed to upload images"]
          ELSE IF \A j \in DOMAIN results : results[j] = "ok"
          THEN [up EXCEPT !.results = results, !.pc = "done", !.status = 200,
                          !.images = [j \in DOMAIN results |-> CloudHandle(j)]]
          ELSE [up EXCEPT !.results = results]
     /\ UNCHANGED <<users, nextId, attempted, authVars, resp, complaints, formVars, procVars, uiVars>>

Base64Handle_truncated(base64Image, idx) ==
  [url |-> SubSeq(base64Image, 1, 5), publicId |-> [prefix |-> "complaint", index |-> idx - 1],
   format |-> "base64", bytes |-> Len(base64Image)]

\* the handle PUT builds from the base64 string at position idx (1-based here)
Base64Handle(base64Image, idx) ==
  [url |-> base64Image, publicId |-> [prefix |-> "complaint", index |-> idx - 1],
   format |-> "base64", bytes |-> Len(base64Image)]

UploadPUT(hasSession, body) ==
  /\ NoPending
  /\ cloud' = Earlier(cloud)
  /\ up' =
       IF PutUnauthorized(hasSession)
       THEN UpResponse("PUT", hasSession, FALSE, <<>>, body, "done", 401,
                       "Unauthorized", <<>>, <<>>)
       ELSE IF body.kind # "array"
       THEN UpResponse("PUT", hasSession, TRUE, <<>>, body, "done", 400,
                       "Invalid images data", <<>>, <<>>)
       ELSE UpResponse("PUT", hasSession, TRUE, <<>>, body, "done", 200, MsgNone,
                       <<>>,
                       [i \in 1..Len(body.images) |-> Base64Handle(body.images[i], i)])
  /\ UNCHANGED <<users, nextId, attempted, authVars, resp, complaints, formVars, procVars, uiVars>>

(***************************************************************************)
(* The complaints collection and POST /api/complaints                       *)
(***************************************************************************)
MaxComplaints == 2

S_title == <<"H", "o", "l", "e">>
S_description == <<"d", "e", "e", "p">>
S_mobile == <<"9", "8">>

\* the paths of an element of images; other paths are dropped on cast
ImagePaths == {"url", "publicId", "width", "height", "format", "bytes"}

castImage(img) == [f \in DOMAIN img \cap ImagePaths |-> img[f]]

castImages_reversed(images) ==
  [i \in DOMAIN images |-> castImage(images[Len(images) + 1 - i])]

\* the cast of the images array: element by element, in order
castImages(images) == [i \in DOMAIN images |-> castImage(images[i])]

\* new Complaint(obj): status and priority take their defaults when absent
NewComplaint(id, obj) ==
  [id |-> id,
   title |-> Get(obj, "title", EmptyStr),
   type |-> Get(obj, "type", ""),
   description |-> Get(obj, "description", EmptyStr),
   address |-> Get(obj, "address", EmptyStr),
   priority |-> Get(obj, "priority", "medium"),
   mobile |-> Get(obj, "mobile", EmptyStr),
   email |-> Get(obj, "email", EmptyStr),
   images |-> castImages(Get(obj, "images", <<>>)),
   status |-> Get(obj, "status", "pending"),
   author |-> Get(obj, "author", 0)]

NoComplaint == NewComplaint(0, [title |-> EmptyStr])

\* Complaint.findById(id)
findById(coll, id) ==
  LET hits == {c \in coll : c.id = id}
  IN IF hits = {} THEN NoComplaint ELSE CHOOSE c \in hits : TRUE

\* the ObjectId a session's user id string stands for
ObjectIdOf(idString) == idString.hex

\* getServerSession(authOptions): the session read from the request's cookie
ServerSession(impl, tok) ==
  IF tok.present THEN session(impl, DefaultSession(tok), tok) ELSE NoSession

DraftIncomplete(body) ==
  \/ Get(body, "title", EmptyStr) = EmptyStr
  \/ Get(body, "type", "") = ""
  \/ Get(body, "description", EmptyStr) = EmptyStr
  \/ Get(body, "address", EmptyStr) = EmptyStr
  \/ Get(body, "mobile", EmptyStr) = EmptyStr

SubmitResult(status, error, complaint, coll) ==
  [status |-> status, error |-> error, complaint |-> complaint, coll |-> coll]

ComplaintsPOST_trustsDraft(coll, id, sess, body) ==
  IF ~sess.present
  THEN SubmitResult(401, "Unauthorized", NoComplaint, coll)
  ELSE IF DraftIncomplete(body)
  THEN SubmitResult(400, "Missing required fields", NoComplaint, coll)
  ELSE LET c == NewComplaint(id, body)
       IN SubmitResult(201, MsgNone, c, coll \cup {c})

\* submit(sessionOrNull, complaintDraft)
ComplaintsPOST(coll, id, sess, body) ==
  IF ~sess.present
  THEN SubmitResult(401, "Unauthorized", NoComplaint, coll)
  ELSE IF DraftIncomplete(body)
  THEN SubmitResult(400, "Missing required fields", NoComplaint, coll)
  ELSE LET c == NewComplaint(id,
                  [f \in DOMAIN body \ {"author", "status"} |-> body[f]] @@
                  [author |-> ObjectIdOf(sess.user.id)])
       IN SubmitResult(201, MsgNone, c, coll \cup {c})

ImgA ==
  [url |-> "https://images.unsplash.com/photo-1581833971358-2c8b550f87b3?w=800&q=80",
   publicId |-> "pothole_evidence_1"]
ImgB ==
  [url |-> "https://images.unsplash.com/photo-1558618666-fbd2c1d0d802?w=800&q=80",
   publicId |-> "pothole_evidence_2"]
ImgC ==
  [url |-> "https://images.unsplash.com/photo-1571019613454-1cb2f99b2d8b?w=800&q=80",
   publicId |-> "pothole_evidence_3"]

\* drafts a client other than the form may send; the first has the shape of
\* the form's payload
Drafts ==
  LET full == [title |-> S_title, type |-> "pothole", description |-> S_description,
               address |-> S_address, mobile |-> S_mobile]
  IN {full @@ [priority |-> "medium", email |-> EmptyStr, images |-> <<ImgA, ImgB, ImgC>>],
      full,
      full @@ [priority |-> "critical"],
      full @@ [author |-> 1, status |-> "resolved"],
      full @@ [author |-> 3, status |-> "in_progress", images |-> <<ImgB, ImgA>>],
      [full EXCEPT !.address = EmptyStr] @@ [author |-> 1]}

ProbeDrafts == {d \in Drafts : DOMAIN d = {"title", "type", "description", "address",
                                           "mobile", "author", "status"}}

ImageDrafts == {d \in Drafts : "images" \in DOMAIN d}

\* a POST to /api/complaints that does not come from the form
SubmitDirect(draft) ==
  LET sess == ServerSession(authImpl, token)
      r == ComplaintsPOST(complaints, nextId, sess, draft)
  IN /\ r.status = 201 => Cardinality(complaints) < MaxComplaints
     /\ complaints' = r.coll
     /\ nextId' = IF r.status = 201 THEN nextId + 1 ELSE nextId
     /\ resp' = [op |-> "submit", via |-> "direct", draft |-> draft, session |-> sess,
                 status |-> r.status, complaint |-> r.complaint, before |-> complaints]
     /\ UNCHANGED <<users, attempted, authVars, uploadVars, formVars, procVars, uiVars>>

(***************************************************************************)
(* components/issue-form.tsx                                                *)
(***************************************************************************)
\* useSession(): the session the component sees
ClientSession == ServerSession(authImpl, token)

\* the reset value of formData; email is session?.user?.email || ""
ResetFormData(sess) ==
  [title |-> EmptyStr, type |-> "", description |-> EmptyStr, address |-> EmptyStr,
   priority |-> "medium", mobile |-> EmptyStr,
   email |-> IF sess.present THEN sess.user.email ELSE EmptyStr]

FormState(formData, uploadedImages, isSubmitting) ==
  [formData |-> formData, uploadedImages |-> uploadedImages,
   isSubmitting |-> isSubmitting]

\* form.last describes the step just taken when it was a run of handleSubmit:
\* how it ended, the toast it raised, the state it started from and whether
\* useSession() gave it a session
LastRun(outcome, toast, before, hadSession) ==
  [outcome |-> outcome, toast |-> toast, before |-> before, hadSession |-> hadSession]

NoRun == LastRun("none", "", FormState(ResetFormData(NoSession), <<>>, FALSE), FALSE)

InitialForm ==
  [formData |-> ResetFormData(NoSession), uploadedImages |-> <<>>,
   isSubmitting |-> FALSE, last |-> NoRun]

NoRequest == [present |-> FALSE, body |-> [title |-> EmptyStr]]

NoResponse == [op |-> "none"]

\* what the user may have typed into the required inputs and picked as priority
FormInputs ==
  {fd \in [title : {EmptyStr, S_title}, type : {"", "pothole"},
           description : {EmptyStr, S_description}, address : {EmptyStr, S_address},
           mobile : {EmptyStr, S_mobile}, priority : {"medium", "high"}] :
     LET empty == {f \in {"title", "description", "address", "mobile"} : fd[f] = EmptyStr}
                    \cup (IF fd.type = "" THEN {"type"} ELSE {})
     IN \/ empty = {} 
        \/ Cardinality(empty) \in {1, 5} /\ fd.priority = "medium"}

ImageLists == {<<>>, <<ImgB, ImgA>>}

\* the onChange handlers of the inputs and the priority buttons
SetFormData(fd) ==
  /\ form' = [form EXCEPT !.formData = fd @@ [email |-> form.formData.email],
                          !.last = NoRun]
  /\ form'.formData # form.formData
  /\ resp' = NoResponse
  /\ UNCHANGED <<users, nextId, attempted, authVars, uploadVars, complaints, req, procVars, uiVars>>

\* handleImagesChange(images); ImageUpload may call it while the form is
\* submitting, when an upload started earlier completes
handleImagesChange(images) ==
  /\ images # form.uploadedImages
  /\ form' = [form EXCEPT !.uploadedImages = images, !.last = NoRun]
  /\ resp' = NoResponse
  /\ UNCHANGED <<users, nextId, attempted, authVars, uploadVars, complaints, req, procVars, uiVars>>

RequiredMissing_titleOnly(formData) == formData.title = EmptyStr

\* the second guard of handleSubmit
RequiredMissing(formData) ==
  \/ formData.type = ""
  \/ formData.title = EmptyStr
  \/ formData.description = EmptyStr
  \/ formData.address = EmptyStr
  \/ formData.mobile = EmptyStr

SessionMissing_unchecked(sess) == FALSE

\* the first guard of handleSubmit
SessionMissing(sess) == ~sess.present

\* JSON.stringify({...formData, images: uploadedImages})
Payload(formData, uploadedImages) == formData @@ [images |-> uploadedImages]

\* handleSubmit up to the await of fetch; the submit button is disabled
\* while isSubmitting
handleSubmit ==
  LET before == FormState(form.formData, form.uploadedImages, form.isSubmitting)
  IN /\ ~form.isSubmitting
     /\ IF SessionMissing(ClientSession)
        THEN /\ form' = [form EXCEPT !.last =
                           LastRun("login", "Please login to submit a complaint", before,
                                   ClientSession.present)]
             /\ req' = req
        ELSE IF RequiredMissing(form.formData)
        THEN /\ form' = [form EXCEPT !.last =
                           LastRun("validation", "Please fill in all required fields", before,
                                   ClientSession.present)]
             /\ req' = req
        ELSE /\ form' = [form EXCEPT !.isSubmitting = TRUE,
                                     !.last = LastRun("sent", "", before, ClientSession.present)]
             /\ req' = [present |-> TRUE,
                        body |-> Payload(form.formData, form.uploadedImages)]
     /\ resp' = NoResponse
     /\ UNCHANGED <<users, nextId, attempted, authVars, uploadVars, complaints, procVars, uiVars>>

\* the server's handling of the request in flight and the rest of
\* handleSubmit; delivered is false when fetch rejects
SubmitSettle(delivered) ==
  LET sess == ServerSession(authImpl, token)
      r == IF delivered
           THEN ComplaintsPOST(complaints, nextId, sess, req.body)
           ELSE SubmitResult(0, "fetch failed", NoComplaint, complaints)
      ok == r.status \in 200..299
      before == FormState(form.formData, form.uploadedImages, form.isSubmitting)
  IN /\ req.present
     /\ r.status = 201 => Cardinality(complaints) < MaxComplaints
     /\ complaints' = r.coll
     /\ nextId' = IF r.status = 201 THEN nextId + 1 ELSE nextId
     /\ req' = NoRequest
     /\ form' = [form EXCEPT
                   !.formData = IF ok THEN ResetFormData(ClientSession) ELSE @,
                   !.uploadedImages = IF ok THEN <<>> ELSE @,
                   !.isSubmitting = FALSE,
                   !.last = LastRun("settled",
                              IF ok THEN "Complaint submitted successfully!"
                              ELSE IF delivered THEN r.error
                              ELSE "An error occurred while submitting the complaint",
                              before, ClientSession.present)]
     /\ resp' = [op |-> "submit", via |-> "form", draft |-> req.body, session |-> sess,
                 status |-> r.status, complaint |-> r.complaint, before |-> complaints]
     /\ UNCHANGED <<users, attempted, authVars, uploadVars, procVars, uiVars>>

(***************************************************************************)
(* components/image-upload.tsx: the ImageUpload component inside IssueForm  *)
(***************************************************************************)
MaxDrops == 2

maxImages == 5
maxSizePerImage == 10

JpegFile == [type |-> "image/jpeg", size |-> maxSize]
PngFile == [type |-> "image/png", size |-> 1]
WebpFile == [type |-> "image/webp", size |-> 1]
GifFile == [type |-> "image/gif", size |-> maxSize]
BigFile == [type |-> "image/jpeg", size |-> TwelveMB]

\* acceptedFiles of a drop: the dropzone accepts 'image/*', so a gif passes
DropBatches ==
  {<<JpegFile, PngFile>>, <<JpegFile, PngFile, WebpFile>>, <<GifFile>>, <<BigFile>>}

\* file.size > maxSizePerImage * 1024 * 1024
TooLarge(file) == file.size > maxSizePerImage * 1024 * 1024

\* the FileReader result of a file, a data URL
convertToBase64(file) == IF file.type = "image/gif" THEN S_b64b ELSE S_b64a

\* what fetch('/api/upload', POST) resolves to: the handler's response when
\* every upload succeeds (stored) or one of them fails
PostResponse(hasSession, files, stored) ==
  LET k == FirstRejected(files)
  IN IF PostUnauthorized(hasSession)
     THEN [status |-> 401, images |-> <<>>]
     ELSE IF Len(files) = 0
     THEN [status |-> 400, images |-> <<>>]
     ELSE IF k # 0
     THEN [status |-> ValidationResponse(files, k).status, images |-> <<>>]
     ELSE IF stored
     THEN [status |-> 200, images |-> [j \in 1..Len(files) |-> CloudHandle(j)]]
     ELSE [status |-> 500, images |-> <<>>]

\* what fetch('/api/upload', PUT) resolves to
PutResponse(hasSession, images) ==
  IF PutUnauthorized(hasSession)
  THEN [status |-> 401, images |-> <<>>]
  ELSE [status |-> 200,
        images |-> [i \in 1..Len(images) |-> Base64Handle(images[i], i)]]

\* a handle as the client receives it: the public id of a handle is unique to
\* its request (assigned by the storage service, or built from Date.now())
Received(request, handle) ==
  [handle EXCEPT !.publicId = [request |-> request, id |-> handle.publicId]]

ReceivedAll(request, handles) ==
  [i \in DOMAIN handles |-> Received(request, handles[i])]

Range(s) == {s[i] : i \in DOMAIN s}

\* the call of onDrop that is awaiting a fetch: images is the list its closure
\* captured, primary the status of the POST response once it arrived
Drop(stage, files, images, request, primary) ==
  [stage |-> stage, files |-> files, images |-> images, request |-> request,
   primary |-> primary]

NoDrop == Drop("none", <<>>, <<>>, 0, 0)

\* the last thing the component did
Event(kind, via, primary, files) ==
  [kind |-> kind, via |-> via, primary |-> primary, files |-> files]

NoEvent == Event("none", "none", 0, <<>>)

InitialUpload ==
  [images |-> <<>>, uploading |-> FALSE, drop |-> NoDrop, requests |-> 0,
   last |-> NoEvent]

\* the disabled prop: IssueForm passes isSubmitting
disabled == form.isSubmitting

\* onImagesChange(newImages) is IssueForm.handleImagesChange
onImagesChange(newImages) ==
  form' = [form EXCEPT !.uploadedImages = newImages, !.last = NoRun]

TooMany_offByOne(images, acceptedFiles) == Len(images) + Len(acceptedFiles) > maxImages + 1

\* totalImages > maxImages
TooMany(images, acceptedFiles) == Len(images) + Len(acceptedFiles) > maxImages

\* onDrop up to its first await; the dropzone is disabled while disabled or
\* uploading
onDrop(acceptedFiles) ==
  /\ ~(disabled \/ iu.uploading)
  /\ TooMany(iu.images, acceptedFiles) \/ iu.requests < MaxDrops
  /\ iu' =
       IF TooMany(iu.images, acceptedFiles)
       THEN [iu EXCEPT !.last = Event("tooMany", "none", 0, acceptedFiles)]
       ELSE IF \E i \in DOMAIN acceptedFiles : TooLarge(acceptedFiles[i])
       THEN [iu EXCEPT !.uploading = FALSE,
                       !.last = Event("tooLarge", "none", 0, acceptedFiles)]
       ELSE [iu EXCEPT !.uploading = TRUE,
                       !.drop = Drop("post", acceptedFiles, iu.images,
                                     iu.requests + 1, 0),
                       !.requests = @ + 1,
                       !.last = Event("sent", "none", 0, acceptedFiles)]
  /\ resp' = NoResponse
  /\ UNCHANGED <<users, nextId, attempted, authVars, uploadVars, complaints, formVars,
                 procVars, feedVars>>

\* setImages(newImages); onImagesChange(newImages); then finally
Added(via, primary, handles) ==
  LET newImages == iu.drop.images \o ReceivedAll(iu.drop.request, handles)
  IN /\ iu' = [iu EXCEPT !.images = newImages, !.uploading = FALSE, !.drop = NoDrop,
                         !.last = Event("added", via, primary, iu.drop.files)]
     /\ onImagesChange(newImages)

Failed_keepsUploading(via, primary) ==
  /\ iu' = [iu EXCEPT !.drop = NoDrop,
                      !.last = Event("failed", via, primary, iu.drop.files)]
  /\ UNCHANGED form

\* the catch block, then finally
Failed(via, primary) ==
  /\ iu' = [iu EXCEPT !.uploading = FALSE, !.drop = NoDrop,
                      !.last = Event("failed", via, primary, iu.drop.files)]
  /\ UNCHANGED form

\* if (!response.ok)
FallbackTaken(status) == status \notin 200..299

\* the primary fetch settles: it throws (~delivered) or resolves to the
\* response of POST
postSettles(delivered, stored) ==
  LET r == PostResponse(ClientSession.present, iu.drop.files, stored)
  IN /\ iu.drop.stage = "post"
     /\ IF ~delivered
        THEN Failed("primary", 0)
        ELSE IF FallbackTaken(r.status)
        THEN /\ iu' = [iu EXCEPT !.drop.stage = "put", !.drop.primary = r.status]
             /\ UNCHANGED form
        ELSE Added("primary", r.status, r.images)
     /\ resp' = NoResponse
     /\ UNCHANGED <<users, nextId, attempted, authVars, uploadVars, complaints, req,
                    procVars, feedVars>>

\* the fallback fetch settles
putSettles(delivered) ==
  LET base64Images == [i \in DOMAIN iu.drop.files |-> convertToBase64(iu.drop.files[i])]
      r == PutResponse(ClientSession.present, base64Images)
  IN /\ iu.drop.stage = "put"
     /\ IF ~delivered \/ r.status \notin 200..299
        THEN Failed("fallback", iu.drop.primary)
        ELSE Added("fallback", iu.drop.primary, r.images)
     /\ resp' = NoResponse
     /\ UNCHANGED <<users, nextId, attempted, authVars, uploadVars, complaints, req,
                    procVars, feedVars>>

\* removeImage(index), index 0-based in the code; the remove button is
\* disabled only by the disabled prop
removeImage(index) ==
  LET newImages == [i \in 1..(Len(iu.images) - 1) |->
                      IF i < index THEN iu.images[i] ELSE iu.images[i + 1]]
  IN /\ ~disabled
     /\ index \in DOMAIN iu.images
     /\ iu' = [iu EXCEPT !.images = newImages,
                         !.last = Event("removed", "none", 0, <<>>)]
     /\ onImagesChange(newImages)
     /\ resp' = NoResponse
     /\ UNCHANGED <<users, nextId, attempted, authVars, uploadVars, complaints, req,
                    procVars, feedVars>>

(***************************************************************************)
(* The test endpoint and the operator scripts that write both collections   *)
(***************************************************************************)
MaxIds == 7

Digits == <<"0", "1", "2", "3", "4", "5", "6", "7", "8", "9">>

\* `${Date.now()}`: the decimal digits of the clock reading
RECURSIVE ToDigits(_)
ToDigits(n) == IF n < 10 THEN <<Digits[n + 1]>> ELSE ToDigits(n \div 10) \o <<Digits[(n % 10) + 1]>>

\* Model.findByIdAndDelete(id)
findByIdAndDelete(coll, id) == {d \in coll : d.id # id}

\* populate('author'): the author document, NoUser (null) when none has the id
populate(coll, author) ==
  LET hits == {u \in coll : u.id = author}
  IN IF hits = {} THEN NoUser ELSE CHOOSE u \in hits : TRUE

TestImg1 ==
  [url |-> "https://images.unsplash.com/photo-1581833971358-2c8b550f87b3?w=800",
   publicId |-> "test_image_1"]
TestImg2 ==
  [url |-> "https://images.unsplash.com/photo-1558618666-fbd2c1d0d802?w=800",
   publicId |-> "test_image_2"]

\* POST of the image test endpoint
TestEndpointPOST ==
  LET found == findOneByEmail(users, S_testExampleEmail)
      created == save(users, NewUser(nextId,
                   [name |-> S_TestUser, email |-> S_testExampleEmail,
                    password |-> Plain(S_testpassword123), mobile |-> S_mobile1,
                    role |-> "citizen"]))
      coll == IF found.id # 0 THEN users ELSE created.coll
      testUser == IF found.id # 0 THEN found ELSE created.doc
      cid == IF found.id # 0 THEN nextId ELSE nextId + 1
      images == <<TestImg1, TestImg2>>
      testComplaint == NewComplaint(cid,
                         [title |-> S_title, type |-> "pothole",
                          description |-> S_description, address |-> S_address,
                          priority |-> "medium", mobile |-> S_mobile1,
                          email |-> S_testExampleEmail, author |-> testUser.id,
                          images |-> images])
      savedComplaint == findById(complaints \cup {testComplaint}, cid)
  IN /\ Cardinality(complaints) < MaxComplaints
     /\ cid < MaxIds
     /\ users' = coll
     /\ complaints' = complaints \cup {testComplaint}
     /\ nextId' = cid + 1
     /\ resp' = [op |-> "testEndpoint", status |-> 200, sent |-> images,
                 id |-> savedComplaint.id, images |-> savedComplaint.images,
                 author |-> populate(coll, savedComplaint.author)]
     /\ UNCHANGED <<attempted, authVars, uploadVars, formVars, procVars, uiVars>>

\* the run of the image storage script, from dbConnect to process.exit
testImageStorage ==
  LET created == save(users, NewUser(nextId,
                   [name |-> S_TestUser,
                    email |-> S_imagetestPrefix \o ToDigits(nextId) \o S_exampleDomain,
                    password |-> Plain(S_testpassword123), mobile |-> S_mobile1,
                    role |-> "citizen"]))
      testUser == created.doc
      images == <<ImgA, ImgB, ImgC>>
      complaintWithImages == NewComplaint(nextId + 1,
                         [title |-> S_title, type |-> "pothole",
                          description |-> S_description, address |-> S_address,
                          priority |-> "high", mobile |-> S_mobile1,
                          email |-> testUser.email, author |-> testUser.id,
                          images |-> images])
      stored == complaints \cup {complaintWithImages}
      retrievedComplaint == findById(stored, complaintWithImages.id)
      \* (complaint.author as any).name in the loop over the complaints with
      \* images throws when populate left null
      imageComplaints == {c \in stored : c.images # <<>>}
      threw == \E c \in imageComplaints : populate(created.coll, c.author).id = 0
  IN /\ Cardinality(complaints) < MaxComplaints
     /\ nextId + 1 < MaxIds
     /\ created.ok
     /\ users' = IF threw THEN created.coll
                 ELSE findByIdAndDelete(created.coll, testUser.id)
     /\ complaints' = stored
     /\ nextId' = nextId + 2
     /\ resp' = [op |-> "testImageStorage", status |-> IF threw THEN 1 ELSE 0,
                 sent |-> images, id |-> retrievedComplaint.id,
                 images |-> retrievedComplaint.images,
                 author |-> populate(created.coll, retrievedComplaint.author)]
     /\ UNCHANGED <<attempted, authVars, uploadVars, formVars, procVars, uiVars>>

maxAttempts == 3

ScriptState(pc, connected, attempts, calls, sleeps, result) ==
  [pc |-> pc, connected |-> connected, attempts |-> attempts, calls |-> calls,
   sleeps |-> sleeps, result |-> result]

NoScriptRun == ScriptState("idle", FALSE, 0, 0, 0, "none")

LoopContinues_inclusive(connected, attempts) == ~connected /\ attempts <= maxAttempts

\* while (!connected && attempts < maxAttempts)
LoopContinues(connected, attempts) == ~connected /\ attempts < maxAttempts

\* the start of a run of the setup test script, up to the retry loop
scriptStart ==
  /\ script.pc \in {"idle", "done"}
  /\ script' = ScriptState("loop", FALSE, 0, 0, 0, "none")
  /\ UNCHANGED <<users, nextId, attempted, authVars, resp, uploadVars, complaints, formVars, reg, uiVars>>

\* one iteration of the retry loop up to its await of the timer: attempts++,
\* await dbConnect(), which resolves (ok) or rejects
connectAttempt(ok) ==
  LET attempts == script.attempts + 1
  IN /\ script.pc = "loop"
     /\ LoopContinues(script.connected, script.attempts)
     /\ script' = [script EXCEPT
                     !.attempts = attempts,
                     !.calls = @ + 1,
                     !.connected = ok,
                     !.pc = IF ~ok /\ attempts < maxAttempts THEN "sleep" ELSE "loop"]
     /\ UNCHANGED <<users, nextId, attempted, authVars, resp, uploadVars, complaints, formVars, reg, uiVars>>

\* the 2000 ms timer of the catch block fires
retryDelayElapsed ==
  /\ script.pc = "sleep"
  /\ script' = [script EXCEPT !.sleeps = @ + 1, !.pc = "loop"]
  /\ UNCHANGED <<users, nextId, attempted, authVars, resp, uploadVars, complaints, formVars, reg, uiVars>>

\* the loop condition is false: return false if (!connected), else go on
loopExit ==
  /\ script.pc = "loop"
  /\ ~LoopContinues(script.connected, script.attempts)
  /\ script' = IF ~script.connected
                THEN [script EXCEPT !.pc = "done", !.result = "false"]
                ELSE [script EXCEPT !.pc = "ops"]
  /\ UNCHANGED <<users, nextId, attempted, authVars, resp, uploadVars, complaints, formVars, reg, uiVars>>

\* the rest of the run of the setup test script once the connection is up
fullDatabaseTest ==
  LET created == save(users, NewUser(nextId,
                   [name |-> S_TestUser,
                    email |-> S_testPrefix \o ToDigits(nextId) \o S_cityguardianDomain,
                    password |-> Plain(S_SecurePass), mobile |-> S_mobile1,
                    role |-> "citizen"]))
      savedUser == created.doc
      savedComplaint == NewComplaint(nextId + 1,
                         [title |-> S_title, type |-> "pothole",
                          description |-> S_description, address |-> S_address,
                          priority |-> "high", mobile |-> S_mobile1,
                          email |-> savedUser.email, author |-> savedUser.id])
  IN /\ script.pc = "ops"
     /\ Cardinality(complaints) < MaxComplaints
     /\ nextId + 1 < MaxIds
     /\ created.ok
     /\ users' = findByIdAndDelete(created.coll, savedUser.id)
     /\ complaints' = findByIdAndDelete(complaints \cup {savedComplaint}, savedComplaint.id)
     /\ nextId' = nextId + 2
     /\ resp' = [op |-> "fullDatabaseTest", status |-> 0, sent |-> <<>>,
                 id |-> savedComplaint.id, images |-> savedComplaint.images,
                 author |-> savedUser]
     /\ script' = [script EXCEPT !.pc = "done", !.result = "true"]
     /\ UNCHANGED <<attempted, authVars, uploadVars, formVars, reg, uiVars>>

(***************************************************************************)
(* Specifications                                                           *)
(***************************************************************************)
NoUpload ==
  UpResponse("", FALSE, FALSE, <<>>, NoPutBody, "idle", 0, MsgNone, <<>>, <<>>)

(***************************************************************************)
(* sample-data seeding (users, then complaints)                             *)
(***************************************************************************)
S_sampleTitle1 ==
  << "L", "a", "r", "g", "e", " ", "p", "o", "t", "h", "o", "l", "e", " ", "o", "n",
     " ", "M", "a", "i", "n", " ", "S", "t", "r", "e", "e", "t" >>
S_sampleDescription1 ==
  << "T", "h", "e", "r", "e", " ", "i", "s", " ", "a", " ", "d", "a", "n", "g", "e",
     "r", "o", "u", "s", " ", "p", "o", "t", "h", "o", "l", "e", " ", "n", "e", "a",
     "r", " ", "t", "h", "e", " ", "t", "r", "a", "f", "f", "i", "c", " ", "s", "i",
     "g", "n", "a", "l", " ", "t", "h", "a", "t", " ", "n", "e", "e", "d", "s", " ",
     "i", "m", "m", "e", "d", "i", "a", "t", "e", " ", "a", "t", "t", "e", "n", "t",
     "i", "o", "n", "." >>
S_sampleAddress1 ==
  << "M", "a", "i", "n", " ", "S", "t", "r", "e", "e", "t", ",", " ", "N", "e", "a",
     "r", " ", "T", "r", "a", "f", "f", "i", "c", " ", "S", "i", "g", "n", "a", "l",
     ",", " ", "D", "e", "l", "h", "i" >>
S_sampleTitle2 ==
  << "G", "a", "r", "b", "a", "g", "e", " ", "n", "o", "t", " ", "c", "o", "l", "l",
     "e", "c", "t", "e", "d", " ", "f", "o", "r", " ", "3", " ", "d", "a", "y", "s" >>
S_sampleDescription2 ==
  << "T", "h", "e", " ", "g", "a", "r", "b", "a", "g", "e", " ", "i", "n", " ", "o",
     "u", "r", " ", "l", "o", "c", "a", "l", "i", "t", "y", " ", "h", "a", "s", " ",
     "n", "o", "t", " ", "b", "e", "e", "n", " ", "c", "o", "l", "l", "e", "c", "t",
     "e", "d", " ", "f", "o", "r", " ", "t", "h", "e", " ", "p", "a", "s", "t", " ",
     "3", " ", "d", "a", "y", "s", " ", "c", "a", "u", "s", "i", "n", "g", " ", "h",
     "e", "a", "l", "t", "h", " ", "i", "s", "s", "u", "e", "s", "." >>
S_sampleAddress2 ==
  << "S", "e", "c", "t", "o", "r", " ", "1", "5", ",", " ", "N", "o", "i", "d", "a",
     ",", " ", "U", "P" >>
S_sampleTitle3 ==
  << "B", "r", "o", "k", "e", "n", " ", "s", "t", "r", "e", "e", "t", " ", "l", "i",
     "g", "h", "t", " ", "c", "a", "u", "s", "i", "n", "g", " ", "s", "a", "f", "e",
     "t", "y", " ", "i", "s", "s", "u", "e", "s" >>
S_sampleDescription3 ==
  << "T", "h", "e", " ", "s", "t", "r", "e", "e", "t", " ", "l", "i", "g", "h", "t",
     " ", "h", "a", "s", " ", "b", "e", "e", "n", " ", "b", "r", "o", "k", "e", "n",
     " ", "f", "o", "r", " ", "a", " ", "w", "e", "e", "k", " ", "m", "a", "k", "i",
     "n", "g", " ", "t", "h", "e", " ", "a", "r", "e", "a", " ", "u", "n", "s", "a",
     "f", "e", " ", "a", "t", " ", "n", "i", "g", "h", "t", "." >>
S_sampleAddress3 ==
  << "P", "a", "r", "k", " ", "S", "t", "r", "e", "e", "t", ",", " ", "G", "u", "r",
     "g", "a", "o", "n", ",", " ", "H", "a", "r", "y", "a", "n", "a" >>
S_sampleTitle4 ==
  << "I", "n", "d", "u", "s", "t", "r", "i", "a", "l", " ", "s", "m", "o", "k", "e",
     " ", "c", "a", "u", "s", "i", "n", "g", " ", "a", "i", "r", " ", "p", "o", "l",
     "l", "u", "t", "i", "o", "n" >>
S_sampleDescription4 ==
  << "F", "a", "c", "t", "o", "r", "y", " ", "i", "s", " ", "r", "e", "l", "e", "a",
     "s", "i", "n", "g", " ", "t", "h", "i", "c", "k", " ", "s", "m", "o", "k", "e",
     " ", "w", "i", "t", "h", "o", "u", "t", " ", "p", "r", "o", "p", "e", "r", " ",
     "f", "i", "l", "t", "r", "a", "t", "i", "o", "n", " ", "c", "a", "u", "s", "i",
     "n", "g", " ", "a", "i", "r", " ", "q", "u", "a", "l", "i", "t", "y", " ", "i",
     "s", "s", "u", "e", "s", "." >>
S_sampleAddress4 ==
  << "I", "n", "d", "u", "s", "t", "r", "i", "a", "l", " ", "A", "r", "e", "a", ",",
     " ", "P", "h", "a", "s", "e", " ", "1", ",", " ", "G", "u", "r", "g", "a", "o",
     "n" >>

\* sampleComplaints, given the users the first loop collected
sampleComplaints(createdUsers) ==
  << [type |-> "pothole", title |-> S_sampleTitle1, description |-> S_sampleDescription1,
      address |-> S_sampleAddress1, priority |-> "high", mobile |-> S_mobile1,
      email |-> S_citizen1Email, author |-> createdUsers[1].id, status |-> "pending"],
     [type |-> "waste", title |-> S_sampleTitle2, description |-> S_sampleDescription2,
      address |-> S_sampleAddress2, priority |-> "medium", mobile |-> S_mobile1,
      email |-> S_citizen1Email, author |-> createdUsers[1].id, status |-> "in_progress"],
     [type |-> "streetlight", title |-> S_sampleTitle3, description |-> S_sampleDescription3,
      address |-> S_sampleAddress3, priority |-> "critical", mobile |-> S_mobile2,
      email |-> S_employeeEmail, author |-> createdUsers[2].id, status |-> "resolved"],
     [type |-> "air_pollution", title |-> S_sampleTitle4, description |-> S_sampleDescription4,
      address |-> S_sampleAddress4, priority |-> "critical", mobile |-> S_mobile3,
      email |-> S_adminEmail, author |-> createdUsers[3].id, status |-> "pending"] >>

\* Complaint.findOne({ title })
findOneByTitle(coll, title) ==
  LET hits == {c \in coll : c.title = title}
  IN IF hits = {} THEN NoComplaint ELSE CHOOSE c \in hits : TRUE

SeedComplaintOne_unchecked(st, complaintData) ==
  [coll |-> st.coll \cup {NewComplaint(st.id, complaintData)}, id |-> st.id + 1]

\* one iteration of the loop over sampleComplaints; st = [coll, id]
SeedComplaintOne(st, complaintData) ==
  IF findOneByTitle(st.coll, complaintData.title).id # 0
  THEN st
  ELSE [coll |-> st.coll \cup {NewComplaint(st.id, complaintData)}, id |-> st.id + 1]

RECURSIVE SeedComplaintLoop(_, _, _)
SeedComplaintLoop(st, data, i) ==
  IF i > Len(data) THEN st
  ELSE SeedComplaintLoop(SeedComplaintOne(st, data[i]), data, i + 1)

\* step 3 of the script as a function of the two collections and the id source
SampleData(userColl, complaintColl, id) ==
  LET seededUsers == SeedLoop([coll |-> userColl, id |-> id], 1)
      createdUsers == [i \in DOMAIN sampleUsers |->
                         findOneByEmail(seededUsers.coll, sampleUsers[i].email)]
      seeded == SeedComplaintLoop([coll |-> complaintColl, id |-> seededUsers.id],
                                  sampleComplaints(createdUsers), 1)
  IN [users |-> seededUsers.coll, complaints |-> seeded.coll, id |-> seeded.id]

\* one run of step 3: the users loop, then the complaints loop
createSampleData ==
  LET r == SampleData(users, complaints, nextId)
  IN /\ Cardinality(r.users) <= MaxUsers
     /\ users' = r.users
     /\ complaints' = r.complaints
     /\ nextId' = r.id
     /\ resp' = [op |-> "sampleData", before |-> [users |-> users,
                                                  complaints |-> complaints]]
     /\ UNCHANGED <<attempted, authVars, uploadVars, formVars, procVars, uiVars>>

\* a complaint submitted by hand under the title of the first sample complaint
TitledDrafts ==
  {[d EXCEPT !.title = t] : d \in ProbeDrafts, t \in {S_sampleTitle1, S_sampleTitle3}}

(***************************************************************************)
(* hooks/use-live-feed.ts                                                   *)
(***************************************************************************)
NoFeed == [mounted |-> FALSE, itemsToShow |-> 0, updates |-> <<>>, clock |-> 0]

NoRealtime ==
  [mounted |-> FALSE, hasMax |-> FALSE, maxValue |-> 0, value |-> 0, trend |-> "stable",
   prev |-> 0, ticks |-> 0]

MaxItems == 6
MaxTicks == 3

Min(a, b) == IF a < b THEN a ELSE b
Max(a, b) == IF a > b THEN a ELSE b

\* Array.prototype.slice(begin, end) for begin >= 0: a negative end counts
\* from the end of the array
slice(s, begin, end) ==
  LET len == Len(s)
      final == IF end < 0 THEN Max(len + end, 0) ELSE Min(end, len)
  IN SubSeq(s, Min(begin, len) + 1, final)

LiveUpdate(id, message, type, priority) ==
  [id |-> id, message |-> message, type |-> type, priority |-> priority]

mockUpdates ==
  << LiveUpdate(1, "New pothole reported on Main Street", "issue", "high"),
     LiveUpdate(2, "Street lights restored in Downtown Core", "resolution", "medium"),
     LiveUpdate(3, "AQI Alert: Industrial East zone exceeded threshold", "alert", "high"),
     LiveUpdate(4, "Jordan Blake reached Gold tier!", "achievement", "low"),
     LiveUpdate(5, "Waste collection completed in Harbor District", "resolution",
                "medium") >>

NewMessages ==
  <<"New issue reported", "Task completed", "Alert triggered", "Achievement unlocked">>
NewTypes == <<"issue", "resolution", "alert", "achievement">>
NewPriorities == <<"low", "medium", "high">>

\* the values of Math.floor(Math.random() * n) of one tick, for the message,
\* the type and the priority
Draws ==
  {[message |-> 0, type |-> 0, priority |-> 0],
   [message |-> 3, type |-> 1, priority |-> 2]}

\* Date.now().toString() at tick number clock: later than every mock id and
\* than the id of every earlier tick (the interval is 5 s)
NowId(clock) == Len(mockUpdates) + clock

\* the updater passed to setUpdates in the interval callback
AddUpdate(prev, newUpdate, itemsToShow) ==
  <<newUpdate>> \o slice(prev, 0, itemsToShow - 1)

\* the effect of useLiveFeed(itemsToShow): it runs at mount and again when
\* itemsToShow changes
mountFeed(itemsToShow) ==
  /\ ~feed.mounted \/ feed.itemsToShow # itemsToShow
  /\ feed' = [feed EXCEPT !.mounted = TRUE, !.itemsToShow = itemsToShow,
                          !.updates = slice(mockUpdates, 0, itemsToShow)]
  /\ UNCHANGED <<users, nextId, attempted, authVars, resp, uploadVars, complaints,
                 formVars, procVars, iu, rt>>

\* one firing of the 5000 ms interval
feedTick(draw) ==
  LET newUpdate == LiveUpdate(NowId(feed.clock + 1), NewMessages[draw.message + 1],
                              NewTypes[draw.type + 1], NewPriorities[draw.priority + 1])
  IN /\ feed.mounted
     /\ feed.clock < MaxTicks
     /\ feed' = [feed EXCEPT !.updates = AddUpdate(feed.updates, newUpdate,
                                                   feed.itemsToShow),
                             !.clock = @ + 1]
     /\ UNCHANGED <<users, nextId, attempted, authVars, resp, uploadVars, complaints,
                    formVars, procVars, iu, rt>>

MaxValue == 3

\* maxValue || prev + 10: an absent maxValue and 0 are falsy
UpperLimit(hasMax, maxValue, prev) ==
  IF hasMax /\ maxValue # 0 THEN maxValue ELSE prev + 10

\* Math.max(0, Math.min(prev + change, maxValue || prev + 10))
NewValue(prev, change, hasMax, maxValue) ==
  Max(0, Min(prev + change, UpperLimit(hasMax, maxValue, prev)))

\* useRealtimeData(initialValue, maxValue): useState(initialValue)
mountRealtime(initialValue, hasMax, maxValue) ==
  /\ ~rt.mounted
  /\ hasMax \/ maxValue = 0
  /\ rt' = [mounted |-> TRUE, hasMax |-> hasMax, maxValue |-> maxValue,
            value |-> initialValue, trend |-> "stable", prev |-> initialValue,
            ticks |-> 0]
  /\ UNCHANGED <<users, nextId, attempted, authVars, resp, uploadVars, complaints,
                 formVars, procVars, iu, feed>>

\* one firing of the interval; change is Math.floor(Math.random() * 5) - 2
realtimeTick(change) ==
  /\ rt.mounted
  /\ rt.ticks < MaxTicks
  /\ rt' = [rt EXCEPT !.value = NewValue(rt.value, change, rt.hasMax, rt.maxValue),
                      !.trend = IF change > 0 THEN "up"
                                ELSE IF change < 0 THEN "down" ELSE "stable",
                      !.prev = rt.value,
                      !.ticks = @ + 1]
  /\ UNCHANGED <<users, nextId, attempted, authVars, resp, uploadVars, complaints,
                 formVars, procVars, iu, feed>>

(***************************************************************************)
(* Two register requests served concurrently                                *)
(***************************************************************************)
Clients == {1, 2}

IdleRegister == [pc |-> "idle"]

\* valid bodies whose emails are equal up to letter case, and one other email
RaceBodies ==
  {b \in RegisterBodies :
     /\ b.email \in {S_aliceEmail, S_AliceEmailUpper, S_AdminEmailMixed}
     /\ b.password = S_abcdef
     /\ b.role \in {"", "admin"}
     /\ OtherFieldsEmpty(b) = {}}

\* the handler of client c up to the answer of findOne: it responds, or goes
\* on to hash the password
registerCheck(c, body) ==
  LET r == RegisterPOST(users, nextId, body)
  IN /\ reg[c].pc \in {"idle", "done"}
     /\ reg' = [reg EXCEPT ![c] =
                  IF r.db = <<"dbConnect", "findOne", "save">>
                  THEN [pc |-> "checked", body |-> body]
                  ELSE [pc |-> "done", body |-> body, status |-> r.status]]
     /\ resp' = NoResponse
     /\ UNCHANGED <<users, nextId, attempted, authVars, uploadVars, complaints, formVars,
                    script, uiVars>>

\* the rest of the handler of client c: new User, save, response
registerSave(c) ==
  LET r == CreateAndSave(users, nextId, reg[c].body)
  IN /\ reg[c].pc = "checked"
     /\ Cardinality(users) < MaxUsers
     /\ users' = r.coll
     /\ nextId' = IF r.coll # users THEN nextId + 1 ELSE nextId
     /\ reg' = [reg EXCEPT ![c] = [pc |-> "done", body |-> reg[c].body,
                                   status |-> r.status]]
     /\ resp' = NoResponse
     /\ UNCHANGED <<attempted, authVars, uploadVars, complaints, formVars, script, uiVars>>

(***************************************************************************)
(* Specifications                                                           *)
(***************************************************************************)
InitCommon ==
  /\ users = {}
  /\ nextId = 1
  /\ attempted = {}
  /\ token = NoToken
  /\ signedIn = NoUser
  /\ resp = NoResponse
  /\ up = NoUpload
  /\ cloud = {}
  /\ complaints = {}
  /\ form = InitialForm
  /\ req = NoRequest
  /\ script = NoScriptRun
  /\ reg = [c \in Clients |-> IdleRegister]
  /\ iu = InitialUpload
  /\ feed = NoFeed
  /\ rt = NoRealtime

Init == InitCommon /\ authImpl = "route"

Next ==
  \/ \E body \in RegisterBodies : Register(body)
  \/ SeedSampleUsers

Spec == Init /\ [][Next]_vars

InitAuth == InitCommon /\ authImpl \in AuthImpls

NextAuth ==
  \/ SeedSampleUsers
  \/ \E credentials \in Credentials : SignIn(credentials)
  \/ GetSession

SpecAuth == InitAuth /\ [][NextAuth]_vars

\* one request body for each way the register handler answers
IdentityBodies ==
  {b \in RegisterBodies :
     /\ b.email \in {S_aliceEmail, S_AdminEmailMixed, S_emailNoDot}
     /\ b.role = "" \/ b.password = S_abcdef
     /\ OtherFieldsEmpty(b) \subseteq {"city"}
     /\ OtherFieldsEmpty(b) = {} \/ (b.role = "" /\ b.email = S_aliceEmail)}

NextIdentity ==
  \/ \E body \in IdentityBodies : Register(body)
  \/ SeedSampleUsers
  \/ \E credentials \in Credentials : SignIn(credentials)
  \/ GetSession

SpecIdentity == InitAuth /\ [][NextIdentity]_vars

NextSession ==
  \/ SeedSampleUsers
  \/ \E credentials \in Credentials : SignIn(credentials)
  \/ GetSession
  \/ \E id \in 1..MaxUsers, role \in RoleEnum : UpdateUserRole(id, role)

SpecSession == InitAuth /\ [][NextSession]_vars

SubmitCredentials ==
  {[email |-> S_citizen1Email, password |-> S_password123],
   [email |-> S_AdminEmailMixed, password |-> S_password123]}

NextSubmit ==
  \/ SeedSampleUsers
  \/ \E credentials \in SubmitCredentials : SignIn(credentials)
  \/ \E draft \in Drafts : SubmitDirect(draft)

SpecSubmit == Init /\ [][NextSubmit]_vars

ScriptStep ==
  \/ scriptStart
  \/ \E ok \in BOOLEAN : connectAttempt(ok)
  \/ retryDelayElapsed
  \/ loopExit
  \/ fullDatabaseTest

FormCredentials == {[email |-> S_citizen1Email, password |-> S_password123]}

NextStore ==
  \/ SeedSampleUsers
  \/ \E credentials \in FormCredentials : SignIn(credentials)
  \/ \E draft \in ImageDrafts : SubmitDirect(draft)
  \/ TestEndpointPOST
  \/ testImageStorage
  \/ ScriptStep

SpecStore == Init /\ [][NextStore]_vars

NextScript ==
  \/ TestEndpointPOST
  \/ testImageStorage
  \/ ScriptStep

\* the script is a process of its own: it keeps running
SpecScript == Init /\ [][NextScript]_vars /\ WF_vars(ScriptStep)

NextForm ==
  \/ SeedSampleUsers
  \/ \E credentials \in FormCredentials : SignIn(credentials)
  \/ \E fd \in FormInputs : SetFormData(fd)
  \/ \E images \in ImageLists : handleImagesChange(images)
  \/ handleSubmit
  \/ \E delivered \in BOOLEAN : SubmitSettle(delivered)
  \/ \E draft \in ProbeDrafts : SubmitDirect(draft)

SpecForm == Init /\ [][NextForm]_vars

NextUpload ==
  \/ \E hasSession \in BOOLEAN, files \in Batches : UploadPOST(hasSession, files)
  \/ \E i \in 1..(MaxFiles + 1), ok \in BOOLEAN : UploadSettle(i, ok)
  \/ \E hasSession \in BOOLEAN, body \in PutBodies : UploadPUT(hasSession, body)

SpecUpload == Init /\ [][NextUpload]_vars

(***************************************************************************)
(* Properties of registration (Spec)                                        *)
(***************************************************************************)
RegisteredBefore(email) == \E u \in resp.before : u.email = toLowerCase(email)

\* C1: a second register call with valid input and an email that an earlier
\* register call carried (up to letter case) answers 409 and leaves the
\* users collection as it was.
C1_SecondRegisterIsDuplicate ==
  (resp.op = "register" /\ ValidInput(resp.body) /\ resp.priorSame)
    => (resp.status = 409 /\ users = resp.before)

\* C2: a register call with valid input and an email not yet registered
\* answers 201 with the sanitized user and persists exactly one new record.
C2_ValidRegisterCreatesUser ==
  (resp.op = "register" /\ ValidInput(resp.body) /\ ~RegisteredBefore(resp.body.email))
    => /\ resp.status = 201
       /\ \E u \in users \ resp.before :
            /\ users = resp.before \cup {u}
            /\ u.email = toLowerCase(resp.body.email)
            /\ resp.user.id = u.id
            /\ resp.user.email = u.email
            /\ resp.user.role = u.role

\* C3: register/authenticate round trip: after a register call with valid
\* input, a fresh email and password p, the stored record verifies p and
\* rejects every other candidate.
C3_RegisterThenVerify ==
  (resp.op = "register" /\ ValidInput(resp.body) /\ ~RegisteredBefore(resp.body.email))
    => LET u == findOneByEmail(users, resp.body.email)
       IN /\ u.id # 0
          /\ comparePassword(u, resp.body.password)
          /\ \A c \in (BodyPasswords \cup CredPasswords) \ {resp.body.password} :
               ~comparePassword(u, c)

\* C4: a register call whose password has fewer than 6 characters answers
\* 400 whatever the other fields are, without touching the database.
C4_ShortPasswordRejected ==
  (resp.op = "register" /\ Len(resp.body.password) < 6)
    => (resp.status = 400 /\ users = resp.before /\ resp.db = <<>>)

C4_Witness ==
  /\ resp.op = "register"
  /\ resp.body.password = S_abcde
  /\ ~MissingRequired(resp.body)
  /\ emailRegexTest(resp.body.email)
  /\ resp.body.role = "admin"
  /\ resp.status = 400

\* C17: a register call that fails a check on required fields, email format,
\* password length or role is answered 400, and every call answered 400 has
\* made no database call and leaves the users collection as it was.
C17_BadRequestBeforePersistence ==
  resp.op = "register"
    => /\ ( \/ \E f \in {"name", "email", "password", "phone", "address", "city"} :
                 resp.body[f] = EmptyStr
            \/ ~emailRegexTest(resp.body.email)
            \/ Len(resp.body.password) < 6
            \/ resp.body.role \notin {"", "citizen", "employee", "admin"} )
            => resp.status = 400
       /\ resp.status = 400 => (resp.db = <<>> /\ users = resp.before)
       /\ resp.status # 400 => (Len(resp.db) >= 2 /\ resp.db[1] = "dbConnect")

C17_Witness ==
  /\ resp.op = "register"
  /\ resp.status = 400
  /\ resp.error = "Invalid role specified"
  /\ resp.body.email = S_AdminEmailMixed
  /\ \E u \in users : u.email = S_adminEmail

(***************************************************************************)
(* Properties of upload (SpecUpload)                                        *)
(***************************************************************************)
CurrentArtifacts == {a \in cloud : a.cur}

\* C5: a POST batch, sent with a session, in which some file exceeds the
\* 10 MB cap is answered 400 with no handles and nothing sent upstream,
\* wherever the file stands and whatever the other files are.
C5_OversizeRejectsBatch ==
  (up.method = "POST" /\ up.hasSession
     /\ \E k \in 1..Len(up.files) : up.files[k].size > 10485760)
    => /\ up.pc = "done"
       /\ up.status = 400
       /\ up.images = <<>>
       /\ up.results = <<>>

C5_Witness ==
  /\ up.method = "POST" /\ up.hasSession
  /\ Len(up.files) = 2
  /\ up.files[1] = [type |-> "image/jpeg", size |-> maxSize]
  /\ up.files[2] = [type |-> "image/jpeg", size |-> TwelveMB]
  /\ up.status = 400

\* C6: validation precedes dispatch: a file of a POST batch is sent upstream
\* only when every file of the batch passes the type and size checks, so a
\* batch answered 400 has no handle and no upstream artifact.
C6_ValidationPrecedesDispatch ==
  up.method = "POST" =>
    /\ (up.results # <<>> \/ CurrentArtifacts # {})
         => \A i \in 1..Len(up.files) :
              /\ up.files[i].type \in allowedTypes
              /\ up.files[i].size <= maxSize
    /\ up.status = 400
         => (up.images = <<>> /\ up.results = <<>> /\ CurrentArtifacts = {})

C6_Witness ==
  /\ up.method = "POST" /\ up.hasSession
  /\ Len(up.files) = 2
  /\ up.files[1] = [type |-> "image/jpeg", size |-> maxSize]
  /\ up.files[2] = [type |-> "image/webp", size |-> maxSize + 1]
  /\ up.status = 400
  /\ cloud # {}

\* C7: a POST batch, sent with a session, with a file whose declared type is
\* outside the allow-list is answered 400 with no handles, and a batch goes
\* upstream only if every declared type is in the allow-list.
C7_TypeAllowList ==
  up.method = "POST" =>
    /\ (up.hasSession /\ \E k \in 1..Len(up.files) :
          up.files[k].type \notin {"image/jpeg", "image/jpg", "image/png", "image/webp"})
         => (up.pc = "done" /\ up.status = 400 /\ up.images = <<>>)
    /\ up.results # <<>>
         => \A k \in 1..Len(up.files) :
              up.files[k].type \in {"image/jpeg", "image/jpg", "image/png", "image/webp"}

C7_Witness ==
  /\ up.method = "POST" /\ up.hasSession
  /\ Len(up.files) = 2
  /\ up.files[1] = [type |-> "image/jpg", size |-> maxSize]
  /\ up.files[2] = [type |-> "image/gif", size |-> maxSize]
  /\ up.status = 400

\* C8: POST and PUT without a session answer 401 without reading the body,
\* dispatching an upload or producing a handle.
C8_UploadRequiresSession ==
  (up.method \in {"POST", "PUT"} /\ ~up.hasSession)
    => /\ up.pc = "done"
       /\ up.status = 401
       /\ ~up.bodyRead
       /\ up.results = <<>>
       /\ up.images = <<>>
       /\ CurrentArtifacts = {}

C8_Witness ==
  /\ up.method = "PUT" /\ ~up.hasSession
  /\ up.body.kind = "array" /\ Len(up.body.images) = 2
  /\ up.status = 401

\* C19: a PUT sent with a session whose images is an array of N strings is
\* answered 200 with N handles, the i-th with the i-th string as url and
\* format base64, whatever the strings declare and nothing sent upstream; a
\* PUT whose images is missing or no array is answered 400 with no handles.
C19_PutReturnsHandlesInOrder ==
  (up.method = "PUT" /\ up.hasSession)
    => /\ up.pc = "done"
       /\ CurrentArtifacts = {}
       /\ up.body.kind = "array"
            => /\ up.status = 200
               /\ Len(up.images) = Len(up.body.images)
               /\ \A i \in 1..Len(up.body.images) :
                    /\ up.images[i].url = up.body.images[i]
                    /\ up.images[i].format = "base64"
                    /\ up.images[i].publicId.index = i - 1
       /\ up.body.kind # "array"
            => (up.status = 400 /\ up.error = "Invalid images data" /\ up.images = <<>>)

C19_Witness ==
  /\ up.method = "PUT" /\ up.hasSession
  /\ up.body.kind = "array"
  /\ up.body.images = <<S_b64b, S_b64a>>
  /\ up.status = 200
  /\ up.images[1].url = S_b64b

Dispatched == up.method = "POST" /\ up.results # <<>>

\* C20 as stated: once the uploads of a batch are dispatched, the handler has
\* responded only if every upload has completed; a failed upload makes the
\* response 500 with no handles, and when all succeeded the response is 200
\* with one handle per file.
C20_RespondsAfterAllComplete ==
  (Dispatched /\ up.pc = "done")
    => /\ \A i \in DOMAIN up.results : up.results[i] # "pending"
       /\ (\E i \in DOMAIN up.results : up.results[i] = "failed")
            => (up.status = 500 /\ up.images = <<>>)
       /\ (\A i \in DOMAIN up.results : up.results[i] = "ok")
            => (up.status = 200 /\ Len(up.images) = Len(up.files))

\* C20 as the code has it: the handler responds when every upload has
\* succeeded (200, one handle per file, in order) or as soon as one fails
\* (500, no handles), without waiting for the uploads still in flight; what
\* an upload stored upstream stays there, before and after the response.
C20_RespondsAtFirstFailure ==
  Dispatched
    => /\ Len(up.results) = Len(up.files)
       /\ up.pc = "uploading"
            <=> /\ \A i \in DOMAIN up.results : up.results[i] # "failed"
                /\ \E i \in DOMAIN up.results : up.results[i] = "pending"
       /\ (\E i \in DOMAIN up.results : up.results[i] = "failed")
            => (up.pc = "done" /\ up.status = 500 /\ up.images = <<>>)
       /\ (\A i \in DOMAIN up.results : up.results[i] = "ok")
            => /\ up.pc = "done" /\ up.status = 200
               /\ Len(up.images) = Len(up.files)
               /\ \A i \in DOMAIN up.images : up.images[i].publicId = Artifact(TRUE, i)
       /\ \A i \in DOMAIN up.results :
            up.results[i] = "ok" <=> Artifact(TRUE, i) \in cloud

C20_Witness ==
  /\ Dispatched
  /\ up.pc = "done"
  /\ up.status = 500
  /\ up.results = <<"ok", "failed">>
  /\ Artifact(TRUE, 1) \in cloud

(***************************************************************************)
(* Properties of sign-in (SpecAuth)                                         *)
(***************************************************************************)
\* C9: sign-in with a registered email and a wrong password raises
\* "Invalid password", sign-in with an unregistered email raises
\* "No user found"; neither returns a user nor changes the token.
C9_State ==
  resp.op = "signin" /\ resp.credentials.email # EmptyStr
                     /\ resp.credentials.password # EmptyStr
    => LET known == {u \in users : u.email = toLowerCase(resp.credentials.email)}
       IN /\ known = {}
               => (resp.error = "No user found" /\ ~resp.issued /\ resp.user = NoAuthUser)
          /\ (known # {} /\ \A u \in known : ~comparePassword(u, resp.credentials.password))
               => (resp.error = "Invalid password" /\ ~resp.issued
                   /\ resp.user = NoAuthUser)

C9_Step ==
  (resp'.op = "signin" /\ resp'.error \in {"No user found", "Invalid password"})
    => token' = token

C9_FailuresDistinct == []C9_State /\ [][C9_Step]_vars

C9_Witness ==
  /\ resp.op = "signin"
  /\ resp.credentials = [email |-> S_AdminEmailMixed, password |-> S_secret1]
  /\ users # {}
  /\ resp.error = "Invalid password"
  /\ token.present

\* C10: the token issued by a successful sign-in, and every session read
\* from it, carry the id, role, email and name of the user record whose
\* email and password were verified.
C10_SessionCarriesVerifiedUser ==
  /\ (resp.op = "signin" /\ resp.issued)
       => /\ signedIn \in users
          /\ signedIn.email = toLowerCase(resp.credentials.email)
          /\ comparePassword(signedIn, resp.credentials.password)
  /\ token.present
       => /\ token.id = idToString(signedIn.id)
          /\ token.role = signedIn.role
          /\ token.email = signedIn.email
          /\ token.name = signedIn.name
  /\ (resp.op = "session" /\ resp.session.present)
       => /\ token.present
          /\ resp.session.user.id = idToString(signedIn.id)
          /\ resp.session.user.role = signedIn.role
          /\ resp.session.user.email = signedIn.email
          /\ resp.session.user.name = signedIn.name

C10_Witness ==
  /\ resp.op = "session"
  /\ resp.session.present
  /\ resp.session.user.role = "admin"
  /\ resp.session.user.email = S_adminEmail

(***************************************************************************)
(* Properties of a session while stored roles change (SpecSession)          *)
(***************************************************************************)
\* C11: the role in the token, and in every session read from it, is the
\* role the user record had at sign-in, whatever role the stored record has
\* by now; a step that is not a successful sign-in leaves the token as it is.
C11_State ==
  /\ token.present => token.role = signedIn.role
  /\ (resp.op = "session" /\ resp.session.present)
       => resp.session.user.role = signedIn.role

C11_Step ==
  ~(resp'.op = "signin" /\ resp'.issued) => token' = token

C11_RoleFixedForSession == []C11_State /\ [][C11_Step]_vars

C11_Witness ==
  /\ resp.op = "session"
  /\ resp.session.present
  /\ resp.session.user.role = "admin"
  /\ \E u \in users : idToString(u.id) = resp.session.user.id /\ u.role = "citizen"

(***************************************************************************)
(* Properties of complaint submission (SpecSubmit, SpecForm)                *)
(***************************************************************************)
\* C12: a complaint created by submit has status pending and, as author, the
\* user id of the session that submitted it, whatever author and status the
\* draft carries; its priority is the draft's, medium when the draft has none.
C12_SubmitSetsAuthorAndStatus ==
  /\ (resp.op = "submit" /\ resp.status = 201)
       => LET c == findById(complaints, resp.complaint.id)
          IN /\ c \in complaints \ resp.before
             /\ c = resp.complaint
             /\ c.status = "pending"
             /\ resp.session.present
             /\ c.author = resp.session.user.id.hex
             /\ c.priority = (IF "priority" \in DOMAIN resp.draft
                              THEN resp.draft.priority ELSE "medium")
  /\ \A c \in complaints : c.status = "pending"

C12_Witness ==
  /\ resp.op = "submit"
  /\ resp.status = 201
  /\ "author" \in DOMAIN resp.draft
  /\ resp.draft.author # resp.session.user.id.hex
  /\ resp.draft.status = "in_progress"
  /\ Cardinality(complaints) = 2

\* C13: a submit that arrives without a session is answered 401 and persists
\* nothing; a run of handleSubmit that finds no session raises the login
\* toast, sends no request and leaves the form as it was.
C13_NoSessionNoComplaint ==
  /\ (resp.op = "submit" /\ ~resp.session.present)
       => /\ resp.status = 401
          /\ resp.complaint = NoComplaint
          /\ complaints = resp.before
  /\ (form.last.outcome \in {"login", "validation", "sent"} /\ ~form.last.hadSession)
       => /\ form.last.outcome = "login"
          /\ ~req.present
          /\ FormState(form.formData, form.uploadedImages, form.isSubmitting)
               = form.last.before

C13_Witness ==
  /\ form.last.outcome = "login"
  /\ form.formData.title # EmptyStr /\ form.formData.type # ""
  /\ form.formData.description # EmptyStr /\ form.formData.address # EmptyStr
  /\ form.formData.mobile # EmptyStr
  /\ resp.op = "submit"
  /\ resp.status = 401
  /\ users # {}

\* C14: a run of handleSubmit that finds title, category, description,
\* address or contact mobile empty sends no request and leaves fields,
\* images and isSubmitting as they were; with a session it raises the
\* required-fields toast.  Nothing is persisted by such a run.
C14_State ==
  LET b == form.last.before.formData
  IN (form.last.outcome \in {"login", "validation", "sent"}
        /\ (b.title = EmptyStr \/ b.type = "" \/ b.description = EmptyStr
              \/ b.address = EmptyStr \/ b.mobile = EmptyStr))
       => /\ form.last.outcome # "sent"
          /\ form.last.hadSession
               => (form.last.outcome = "validation"
                   /\ form.last.toast = "Please fill in all required fields")
          /\ ~req.present
          /\ ~form.isSubmitting
          /\ FormState(form.formData, form.uploadedImages, form.isSubmitting)
               = form.last.before

C14_Step ==
  (form'.last.outcome \in {"login", "validation"} /\ form'.last # form.last)
    => (complaints' = complaints /\ req' = req /\ nextId' = nextId)

C14_IncompleteFormNotSent == []C14_State /\ [][C14_Step]_vars

C14_Witness ==
  /\ form.last.outcome = "validation"
  /\ form.formData.mobile = EmptyStr
  /\ form.formData.title # EmptyStr
  /\ form.uploadedImages # <<>>
  /\ form.last.hadSession

(***************************************************************************)
(* Properties of the two collections under the test endpoint and the        *)
(* scripts (SpecStore)                                                      *)
(***************************************************************************)
\* C15: a complaint created with a sequence of k image handles and read back
\* by id has k images, the i-th with the url and the publicId of the i-th
\* handle given.
C15_ImagesRoundTrip ==
  /\ resp.op \in {"testEndpoint", "testImageStorage", "fullDatabaseTest"}
       => /\ Len(resp.images) = Len(resp.sent)
          /\ \A i \in 1..Len(resp.sent) :
               /\ resp.images[i].url = resp.sent[i].url
               /\ resp.images[i].publicId = resp.sent[i].publicId
          /\ resp.op # "fullDatabaseTest"
               => \E c \in complaints : c.id = resp.id /\ c.images = resp.images
  /\ (resp.op = "submit" /\ resp.status = 201)
       => LET sent == IF "images" \in DOMAIN resp.draft THEN resp.draft.images ELSE <<>>
              got == findById(complaints, resp.complaint.id).images
          IN /\ Len(got) = Len(sent)
             /\ \A i \in 1..Len(sent) :
                  got[i].url = sent[i].url /\ got[i].publicId = sent[i].publicId

C15_Witness ==
  /\ resp.op = "testImageStorage"
  /\ Len(resp.images) = 3
  /\ resp.images[3].publicId = "pothole_evidence_3"
  /\ \E c \in complaints : c.id # resp.id /\ Len(c.images) = 2

C16_PasswordNeverExposed ==
  /\ resp.op = "register"
       => DOMAIN resp.user = {"id", "name", "email", "phone", "address", "city", "role"}
  /\ resp.op = "signin" => DOMAIN resp.user = {"id", "email", "name", "role"}
  /\ DOMAIN token = {"present", "sub", "name", "email", "id", "role"}
  /\ resp.op = "session"
       => /\ DOMAIN resp.session = {"present", "user"}
          /\ DOMAIN resp.session.user = {"id", "role", "email", "name"}
  /\ \A u \in users : "password" \in DOMAIN u /\ u.password.rounds # <<>>

C16_Witness ==
  /\ resp.op = "signin"
  /\ resp.issued
  /\ resp.user.id = idToString(signedIn.id)
  /\ signedIn.password.rounds # <<>>
  /\ attempted # {}

(***************************************************************************)
(* Properties of the setup test script's connection retry (SpecScript)      *)
(***************************************************************************)
\* C21: a run of the script calls dbConnect at most 3 times and not again
\* after a success, sleeps 2 s once after each failed attempt but the third,
\* returns false after three failures without touching either collection,
\* and always leaves the retry loop.
C21_State ==
  /\ script.calls <= 3
  /\ script.calls = script.attempts
  /\ script.sleeps <= 2
  /\ script.connected => script.sleeps = script.calls - 1
  /\ script.pc = "sleep"
       => (~script.connected /\ script.calls < 3 /\ script.sleeps = script.calls - 1)
  /\ (script.pc = "loop" /\ ~script.connected)
       => script.sleeps = (IF script.calls = 3 THEN 2 ELSE script.calls)
  /\ script.pc = "ops" => script.connected
  /\ script.result = "true" => script.connected
  /\ script.result = "false"
       => (~script.connected /\ script.calls = 3 /\ script.sleeps = 2)

C21_Step ==
  /\ (script.connected /\ script'.calls # script.calls) => script'.calls = 0
  /\ (script' # script /\ ~script'.connected)
       => (users' = users /\ complaints' = complaints /\ nextId' = nextId)

C21_RetryBounded ==
  /\ []C21_State
  /\ [][C21_Step]_vars
  /\ (script.pc \in {"loop", "sleep"}) ~> (script.pc \in {"ops", "done"})

C21_Witness ==
  /\ script.result = "false"
  /\ script.calls = 3
  /\ script.sleeps = 2
  /\ script.pc = "done"
  /\ complaints # {}

\* the primary or the fallback fetch of the drop in flight returns or throws
fetchSettles ==
  \/ \E delivered \in BOOLEAN, stored \in BOOLEAN : postSettles(delivered, stored)
  \/ \E delivered \in BOOLEAN : putSettles(delivered)

NextImages ==
  \/ SeedSampleUsers
  \/ \E credentials \in FormCredentials : SignIn(credentials)
  \/ \E acceptedFiles \in DropBatches : onDrop(acceptedFiles)
  \/ fetchSettles
  \/ \E index \in 1..maxImages : removeImage(index)

SpecImages == Init /\ [][NextImages]_vars

\* C22: the image list of ImageUpload, and the list it reports to the form,
\* never hold more than maxImages images
C22_State ==
  /\ Len(iu.images) <= maxImages
  /\ Len(form.uploadedImages) <= maxImages

\* C22: a drop that would bring the total above maxImages is rejected whole:
\* the list, the form's list and the request counter stay as they were and no
\* fetch is started; a drop that starts a fetch fits under maxImages
C22_Step ==
  /\ (iu' # iu /\ iu'.last.kind = "tooMany") =>
        /\ Len(iu.images) + Len(iu'.last.files) > maxImages
        /\ iu' = [iu EXCEPT !.last = iu'.last]
        /\ form' = form
  /\ (iu' # iu /\ iu'.last.kind = "sent") =>
        Len(iu.images) + Len(iu'.drop.files) <= maxImages

\* C22: after any sequence of drops, upload completions and removals the
\* number of images never exceeds maxImages, and a drop that would exceed it is
\* rejected whole with no upload request sent and the list unchanged
C22_NeverAboveMaxImages == []C22_State /\ [][C22_Step]_vars

C22_Witness ==
  /\ iu.last.kind = "tooMany"
  /\ Len(iu.images) = maxImages
  /\ Len(form.uploadedImages) = maxImages
  /\ ~iu.uploading

NextRace ==
  \/ SeedSampleUsers
  \/ \E c \in Clients, body \in RaceBodies : registerCheck(c, body)
  \/ \E c \in Clients : registerSave(c)

SpecRace == Init /\ [][NextRace]_vars

\* two requests with the same email up to letter case that overlapped: both
\* passed the duplicate check before either saved, and both have responded
C23_Raced ==
  /\ \A c \in Clients : reg[c].pc = "done"
  /\ toLowerCase(reg[1].body.email) = toLowerCase(reg[2].body.email)

\* C23: when two register requests with the same email (up to letter case)
\* have run, at most one user record with that email exists, at most one of
\* them responded 201, and a request that did not respond 201 responded 409
C23_OneWinnerLoserConflict ==
  C23_Raced =>
    /\ Cardinality({u \in users : u.email = toLowerCase(reg[1].body.email)}) <= 1
    /\ Cardinality({c \in Clients : reg[c].status = 201}) <= 1
    /\ \A c \in Clients : reg[c].status \in {201, 409}

\* the handles a step of ImageUpload brings into a list that did not hold them
Entered(before, after) == Range(after) \ Range(before)

\* C24: an image enters the list of ImageUpload, or the list reported through
\* onImagesChange, only as a handle of the upload that completes in that step
C24_Step ==
  \A h \in Entered(iu.images, iu'.images) \cup
            Entered(form.uploadedImages, form'.uploadedImages) :
    /\ iu.drop.stage # "none"
    /\ h.publicId.request = iu.drop.request

\* C24: once an image has been removed with removeImage it is absent from the
\* image list and from the reported list in every later state unless it is
\* uploaded again; a removal made while an upload is in flight is not undone
\* when that upload completes
C24_RemovedStaysAbsent == [][C24_Step]_vars

\* the form with every required input filled in
FilledInputs == {fd \in FormInputs : ~RequiredMissing(fd) /\ fd.priority = "medium"}

\* the drops made while the form is filled in: one photo at a time
FormBatches == {<<JpegFile>>}

\* IssueForm with the ImageUpload component it mounts
NextFormImages ==
  \/ SeedSampleUsers
  \/ \E credentials \in FormCredentials : SignIn(credentials)
  \/ \E fd \in FilledInputs : SetFormData(fd)
  \/ \E acceptedFiles \in FormBatches : onDrop(acceptedFiles)
  \/ fetchSettles
  \/ \E index \in 1..maxImages : removeImage(index)
  \/ handleSubmit
  \/ \E delivered \in BOOLEAN : SubmitSettle(delivered)

SpecFormImages == Init /\ [][NextFormImages]_vars

\* C25: after any sequence of uploads, removals and complaint submissions the
\* list IssueForm holds and sends on submit equals the list ImageUpload holds
\* and displays; after a successful submit reset the form, both are empty
C25_ListsAgree ==
  /\ form.uploadedImages = iu.images
  /\ (form.last.outcome = "settled" /\ resp.op = "submit" /\ resp.status \in 200..299) =>
        (form.uploadedImages = <<>> /\ iu.images = <<>>)

\* the status POST answers when an upload to the remote service failed
UpstreamFailed == 500

\* C26: the fallback request is in flight, or has added handles to the list,
\* only after a primary response that reported the remote service failing; no
\* handle of a batch that POST rejected with 400 is in the list
C26_FallbackOnlyWhenUnreachable ==
  /\ iu.drop.stage = "put" => iu.drop.primary = UpstreamFailed
  /\ (iu.last.kind = "added" /\ iu.last.via = "fallback") =>
        /\ iu.last.primary = UpstreamFailed
        /\ FirstRejected(iu.last.files) = 0

\* every fetch returns or throws
SpecImagesFair == Init /\ [][NextImages]_vars /\ WF_vars(fetchSettles)

\* C27: uploading is true only while a fetch of the drop is awaited
C27_State ==
  /\ iu.uploading <=> iu.drop.stage \in {"post", "put"}
  /\ iu.last.kind \in {"tooMany", "tooLarge", "added", "failed"} => ~iu.uploading

\* C27: every drop handled by onDrop eventually leaves uploading = false, on
\* every path, provided each fetch returns or throws; the dropzone, disabled
\* while uploading, never stays disabled forever
C27_UploadingEnds == []C27_State /\ (iu.uploading ~> ~iu.uploading)

C27_Witness ==
  /\ iu.last.kind = "failed"
  /\ iu.last.via = "fallback"
  /\ ~iu.uploading
  /\ iu.requests >= 1

NextFeed ==
  \/ \E itemsToShow \in 0..MaxItems : mountFeed(itemsToShow)
  \/ \E draw \in Draws : feedTick(draw)

SpecFeed == Init /\ [][NextFeed]_vars

\* C28: the list returned by useLiveFeed has at most itemsToShow entries
C28_State == feed.mounted => Len(feed.updates) <= feed.itemsToShow

\* C28: a tick puts the update it generated first and keeps the older entries
\* it retains in their order
C28_Step ==
  feed'.clock # feed.clock =>
    /\ feed'.updates # <<>>
    /\ feed'.updates[1].id = NowId(feed'.clock)
    /\ Tail(feed'.updates) = SubSeq(feed.updates, 1, Len(feed'.updates) - 1)

\* C28: for every itemsToShow >= 0 and after any number of interval ticks the
\* list has at most itemsToShow entries, the most recently generated update
\* first and the relative order of the older entries preserved
C28_AtMostItemsToShow == []C28_State /\ [][C28_Step]_vars

NextRealtime ==
  \/ \E initialValue \in (0 - 1)..(MaxValue + 1), hasMax \in BOOLEAN, maxValue \in 0..MaxValue :
       mountRealtime(initialValue, hasMax, maxValue)
  \/ \E change \in (0 - 2)..2 : realtimeTick(change)

SpecRealtime == Init /\ [][NextRealtime]_vars

\* the value before the last tick was within the bounds
C29_PrevWithin == rt.prev >= 0 /\ (rt.hasMax => rt.prev <= rt.maxValue)

\* C29: after every tick the value is >= 0 and, whenever a maxValue argument
\* is supplied (any integer >= 0), the value is <= maxValue; a tick changes
\* the value by at most 2 when the previous value was within bounds
C29_ValueWithinBounds ==
  rt.ticks >= 1 =>
    /\ rt.value >= 0
    /\ rt.hasMax => rt.value <= rt.maxValue
    /\ C29_PrevWithin => (rt.value - rt.prev \in (0 - 2)..2)

\* SeedSampleUsers alone is a run that stopped after the users loop
NextSeed ==
  \/ createSampleData
  \/ SeedSampleUsers
  \/ \E credentials \in FormCredentials : SignIn(credentials)
  \/ \E draft \in ProbeDrafts \cup TitledDrafts : SubmitDirect(draft)
  \/ \E role \in {"citizen", "admin"} : UpdateUserRole(1, role)

SpecSeed == Init /\ [][NextSeed]_vars

\* C30: a run of the seeding keeps what was there, creates a sample user only
\* if no user had its email and a sample complaint only if no complaint had
\* its title, and a second run right after it creates and changes nothing
C30_Step ==
  (resp'.op = "sampleData" /\ <<users', complaints', resp'>> # <<users, complaints, resp>>) =>
    LET again == SampleData(users', complaints', nextId')
    IN /\ again.users = users'
       /\ again.complaints = complaints'
       /\ again.id = nextId'
       /\ users \subseteq users'
       /\ complaints \subseteq complaints'
       /\ \A u \in users' \ users : \A v \in users : v.email # u.email
       /\ \A c \in complaints' \ complaints : \A d \in complaints : d.title # c.title
       /\ \A i \in DOMAIN sampleUsers :
            Cardinality({u \in users' : u.email = sampleUsers[i].email}) = 1
       /\ \A t \in {S_sampleTitle1, S_sampleTitle2, S_sampleTitle3, S_sampleTitle4} :
            \E c \in complaints' : c.title = t

\* C30: the sample-data seeding is idempotent: running it twice in sequence
\* leaves the same users and complaints as running it once
C30_SeedingIdempotent == [][C30_Step]_vars

C30_Witness ==
  /\ resp.op = "sampleData"
  /\ \E c \in resp.before.complaints : c.title = S_sampleTitle1
  /\ Cardinality({c \in complaints : c.title = S_sampleTitle1}) = 1
  /\ Cardinality(complaints) > Cardinality(resp.before.complaints)
  /\ Cardinality(users) = Len(sampleUsers)
====
